---- MODULE Spec2Model ----
(***************************************************************************)
(* Model of the polyte CLOB client: the realtime streaming client          *)
(* (polyte-clob/src/ws) and the order entry points of the REST client      *)
(* (polyte-clob/src/client.rs).                                            *)
(***************************************************************************)
EXTENDS Integers, Sequences, FiniteSets, TLC

\* ------------------------------------------------------------------ bounds
\* Number of identified inbound frames the peer sends on one connection.
MaxFrames == 2
\* Number of inbound frames that can wait unread in the socket.
MaxWire == 2
\* Number of ticks of the keep-alive interval (run) and of ping() calls (pull).
MaxTicks == 2
\* Largest number of elements of an inbound JSON array (decoder inputs).
MaxArr == 2

\* Duration::from_secs(10), the keep-alive interval when none is configured.
DefaultPingSecs == 10

VARIABLES
    \* ---- streaming client (ws/client.rs)
    builder,      \* WebSocketBuilder.ping_interval: <<>> (None) or <<secs>>
    conn,         \* "idle" | "opened" | "client" | "failed"
    mode,         \* "none" | "pull" (WebSocket) | "run" (WebSocketWithPing)
    channel,      \* channel_type: "none" | "market" | "user"
    pingInterval, \* WebSocketWithPing.ping_interval, 0 while there is none
    sock,         \* state of inner: "active" | "closedByUs" | "ended"
    wire,         \* inbound frames not yet read from inner
    inbox,        \* the identified frames the peer has sent, in order
    sent,         \* frames written on the socket, in order
    items,        \* items delivered: yielded by poll_next / handed to handler
    pc,           \* position of the consumer: poll_next or run
    due,          \* ticks of the interval that have elapsed and are not served
    ticks,        \* ticks of the interval so far
    \* ---- decoder inputs (ws/market.rs, ws/user.rs)
    json,         \* a JSON text handed to from_json
    decoded,      \* results of the decoders on json and on its wrapping
    \* ---- order entry points (client.rs)
    order,        \* the call of an entry point of Clob in progress
    \* ---- pure functions applied to inputs
    amounts,      \* calculate_order_amounts (utils.rs): inputs and results
    signing,      \* sign_order (core/eip712.rs): inputs, position, result
    request,      \* Request::send_raw (request.rs): the sends of one client
    signer,       \* Signer::new and Signer::sign (signer.rs)
    debug,        \* Debug renderings of two credentials (account, ws/auth.rs)
    chains        \* calls of the Chain lookups (core/chain.rs) and results

wsVars == <<builder, conn, mode, channel, pingInterval, sock, wire, inbox,
            sent, items, pc, due, ticks>>
decVars == <<json, decoded>>
pureVars == <<amounts, signing, request, signer, debug, chains>>
vars == <<builder, conn, mode, channel, pingInterval, sock, wire, inbox,
          sent, items, pc, due, ticks, json, decoded, order, pureVars>>

\* ---------------------------------------------------------- JSON texts
\* A text is modelled by what the code inspects of it: its first character
\* (form "arr" begins with '['), whether it contains the characters
\* event_type, and, for each JSON object in it, the value of its event_type
\* field ("none": no such field), the struct whose required fields it
\* carries (shape), and its payload.
EventTypes == {"book", "price_change", "tick_size_change", "last_trade_price",
               "trade", "order", "zzz"}
Shapes == {"book", "price_change", "tick_size_change", "last_trade_price",
           "trade", "order", "other"}

Obj(evt, shape, mention, pay) ==
    [evt |-> evt, shape |-> shape, mention |-> mention, pay |-> pay]

Lit(s) == [form |-> "lit", lit |-> s, elems |-> <<>>]
ObjText(o) == [form |-> "obj", lit |-> "", elems |-> <<o>>]
ArrText(os) == [form |-> "arr", lit |-> "", elems |-> os]
\* Text that is no JSON; lit tells whether it contains event_type.
Junk(s) == [form |-> "junk", lit |-> s, elems |-> <<>>]

\* json.starts_with('[')
StartsWithBracket(t) == t.form = "arr"

\* text.contains("event_type"): the key of an object, or the characters
\* elsewhere in the text (inside a string value).
ContainsEventType(t) ==
    \/ t.form = "junk" /\ t.lit = "junk event_type"
    \/ \E i \in 1..Len(t.elems) : t.elems[i].evt # "none" \/ t.elems[i].mention

\* ------------------------------------------------------------- decoders
DecodeErr(why) == [ok |-> FALSE, variant |-> why, evt |-> "", pay |-> 0]
Decoded(variant, o) == [ok |-> TRUE, variant |-> variant, evt |-> o.evt, pay |-> o.pay]

\* serde_json::from_str::<T>(json) for a derived struct T with a required
\* event_type: String and the required fields of `shape`; unknown fields
\* are ignored.
StructOk(o, shape) == o.evt # "none" /\ o.shape = shape

\* serde_json::from_str::<RawMessage>(json): an object needs an event_type.
RawOk(t) == t.form = "obj" /\ t.elems[1].evt # "none"

\* The variant each event_type of the market channel selects.
MarketVariant(evt) ==
    CASE evt = "book" -> "Book"
      [] evt = "price_change" -> "PriceChange"
      [] evt = "tick_size_change" -> "TickSizeChange"
      [] evt = "last_trade_price" -> "LastTradePrice"
      [] OTHER -> "Unknown"

\* MarketMessage::from_json, with the array path not unwrapping the array.
MarketFromJsonNoUnwrap(t) ==
    IF ~RawOk(t) THEN DecodeErr("DecodeError")
    ELSE LET o == t.elems[1] IN
         IF MarketVariant(o.evt) = "Unknown" THEN DecodeErr("DecodeError")
         ELSE IF StructOk(o, o.evt) THEN Decoded(MarketVariant(o.evt), o)
         ELSE DecodeErr("DecodeError")

\* MarketMessage::from_json
MarketFromJson(t) ==
    IF StartsWithBracket(t)
    THEN \* Vec<BookMessage>: every element has to be a BookMessage
         IF \E i \in 1..Len(t.elems) : ~StructOk(t.elems[i], "book")
         THEN DecodeErr("DecodeError")
         ELSE IF Len(t.elems) > 0
              THEN Decoded("Book", t.elems[1])
              ELSE DecodeErr("DecodeError")   \* "Empty book array"
    ELSE IF ~RawOk(t) THEN DecodeErr("DecodeError")
    ELSE LET o == t.elems[1] IN
         IF MarketVariant(o.evt) = "Unknown"
         THEN DecodeErr("DecodeError")        \* "Unknown market event type"
         ELSE IF StructOk(o, o.evt) THEN Decoded(MarketVariant(o.evt), o)
         ELSE DecodeErr("DecodeError")

\* The variant each event_type of the user channel selects.
UserVariant(evt) ==
    CASE evt = "trade" -> "Trade"
      [] evt = "order" -> "Order"
      [] OTHER -> "Unknown"

\* UserMessage::from_json. RawMessage does not deserialize from an array of
\* objects, nor from text that is no JSON.
UserFromJson(t) ==
    IF ~RawOk(t) THEN DecodeErr("DecodeError")
    ELSE LET o == t.elems[1] IN
         IF UserVariant(o.evt) = "Unknown"
         THEN DecodeErr("DecodeError")        \* "Unknown user event type"
         ELSE IF StructOk(o, o.evt) THEN Decoded(UserVariant(o.evt), o)
         ELSE DecodeErr("DecodeError")

\* Result of parse_message: Ok(None) is Skip.
Skip == [ok |-> TRUE, variant |-> "None", evt |-> "", pay |-> 0]

IsKeepAliveNoise(t) == t.form = "lit" /\ t.lit \in {"PONG", "{}", ""}

\* parse_message without its two early returns of Ok(None).
ParseMessageNoSkip(ch, t) ==
    IF ch = "market" THEN MarketFromJson(t) ELSE UserFromJson(t)

\* WebSocket::parse_message and WebSocketWithPing::parse_message (the two
\* bodies are the same text).
ParseMessage(ch, t) ==
    IF IsKeepAliveNoise(t) THEN Skip
    ELSE IF ~ContainsEventType(t) THEN Skip
    ELSE IF ch = "market" THEN MarketFromJson(t) ELSE UserFromJson(t)


\* ------------------------------------------------------- inbound frames
\* What inner.next() can return: Some(Ok(Message::Text | Binary | Ping |
\* Pong | Close)), Some(Err(e)) ("Error") and None ("Eof"). "BinaryBad" is a
\* Binary message whose bytes are no UTF-8. Message::Frame is never returned
\* by a read.
NoText == Lit("")
Frame(kind, text, id) == [kind |-> kind, text |-> text, id |-> id]

BookObj == Obj("book", "book", FALSE, 1)
\* The texts the peer sends in this model: a book object, the same object
\* in an array, a user-channel trade object, an array whose element has all
\* the fields of a book and event_type "trade", an object of an event type
\* no channel knows, an acknowledgement without event_type, the empty text
\* and {}.
PeerTexts ==
    { ObjText(BookObj), ArrText(<<BookObj>>),
      ObjText(Obj("trade", "trade", FALSE, 1)),
      ArrText(<<Obj("trade", "book", FALSE, 1)>>),
      ObjText(Obj("zzz", "book", FALSE, 1)),
      ObjText(Obj("none", "other", FALSE, 1)),
      Lit(""), Lit("{}") }

PeerFrames(id) ==
    { Frame("Text", t, id) : t \in PeerTexts }
    \cup { Frame("Binary", ObjText(BookObj), id), Frame("Binary", Lit("PONG"), id),
           Frame("BinaryBad", NoText, id), Frame("Ping", NoText, id),
           Frame("Close", NoText, id), Frame("Error", NoText, id),
           Frame("Eof", NoText, id) }

\* One frame for each outcome of the match on an inbound frame: a message
\* of the market channel, one of the user channel (each a decode error on
\* the other channel), a skipped text, Close, an error, the end.
OutcomeFrames(id) ==
    { Frame("Text", ObjText(BookObj), id),
      Frame("Text", ObjText(Obj("trade", "trade", FALSE, 1)), id),
      Frame("Text", Lit("{}"), id),
      Frame("Close", NoText, id), Frame("Error", NoText, id),
      Frame("Eof", NoText, id) }

\* The reply of the peer to a PING: every one is the same literal frame.
PongFrame == Frame("Text", Lit("PONG"), 0)

Terminal == {"Close", "Error", "Eof"}

\* The peer can still send: the socket is open and the peer has neither
\* closed nor failed.
PeerOpen ==
    /\ conn \in {"opened", "client"}
    /\ sock # "ended"
    /\ (IF wire = <<>> THEN TRUE ELSE wire[Len(wire)].kind \notin Terminal)

\* An item handed to the consumer: Ok(channel) / Err(e) yielded by poll_next;
\* the channel passed to the handler of run and the Err(e) run returns.
\* closed: close() had been called when the item was handed over.
Item(f, r) ==
    [ok |-> r.ok, id |-> f.id, variant |-> r.variant, evt |-> r.evt,
     pay |-> r.pay, closed |-> (sock = "closedByUs")]

TransportErr == DecodeErr("TransportError")

Pings == Cardinality({i \in 1..Len(sent) : sent[i] = "PING"})

\* Option::unwrap_or
UnwrapOr(opt, d) == IF opt = <<>> THEN d ELSE opt[1]

\* ----------------------------------------------------------------- Init
NoOrder == [pc |-> "idle"]
NoJson == Lit("")
\* No call of a pure function is in progress.
NoCall == [pc |-> "none"]

Init ==
    /\ builder = <<>>
    /\ conn = "idle"
    /\ mode = "none"
    /\ channel = "none"
    /\ pingInterval = 0
    /\ sock = "active"
    /\ wire = <<>>
    /\ inbox = <<>>
    /\ sent = <<>>
    /\ items = <<>>
    /\ pc = "none"
    /\ due = 0
    /\ ticks = 0
    /\ json = NoJson
    /\ decoded = <<>>
    /\ order = NoOrder
    /\ amounts = NoCall
    /\ signing = NoCall
    /\ request = NoCall
    /\ signer = NoCall
    /\ debug = NoCall
    /\ chains = NoCall

\* The streaming client, the decoders and the order entry points at rest.
InitBase ==
    /\ Init!1 /\ Init!2 /\ Init!3 /\ Init!4 /\ Init!5 /\ Init!6 /\ Init!7
    /\ Init!8 /\ Init!9 /\ Init!10 /\ Init!11 /\ Init!12 /\ Init!13
    /\ Init!14 /\ Init!15 /\ Init!16

\* ------------------------------------------------------------- connect
\* WebSocketBuilder::ping_interval
BuilderPingInterval(d) ==
    /\ conn = "idle"
    /\ builder = <<>>
    /\ builder' = <<d>>
    /\ UNCHANGED <<conn, mode, channel, pingInterval, sock, wire, inbox,
                   sent, items, pc, due, ticks, json, decoded, order, pureVars>>

\* connect_async(url).await? : the first half of each of the four connects.
ConnectOpen(ch, via) ==
    /\ conn = "idle"
    /\ \E opened \in BOOLEAN :
         IF opened
         THEN /\ conn' = "opened"
              /\ channel' = ch
              /\ mode' = via
              /\ sock' = "active"
         ELSE /\ conn' = "failed"
              /\ sock' = "ended"
              /\ UNCHANGED <<channel, mode>>
    /\ UNCHANGED <<builder, pingInterval, wire, inbox, sent, items, pc, due,
                   ticks, json, decoded, order, pureVars>>

\* WebSocket::connect_market
ConnectMarket == builder = <<>> /\ ConnectOpen("market", "pull")

\* WebSocket::connect_user
ConnectUser == builder = <<>> /\ ConnectOpen("user", "pull")

\* WebSocketBuilder::connect_market
BuilderConnectMarket == ConnectOpen("market", "run")

\* WebSocketBuilder::connect_user
BuilderConnectUser == ConnectOpen("user", "run")

\* The second half of a connect with the subscription written twice.
SendSubscriptionTwice ==
    /\ conn = "opened"
    /\ sent' = sent \o <<"SUB", "SUB">>
    /\ conn' = "client"
    /\ pingInterval' = IF mode = "run" THEN UnwrapOr(builder, DefaultPingSecs) ELSE 0
    /\ pc' = IF mode = "run" THEN "runIdle" ELSE "pull"
    /\ UNCHANGED <<builder, mode, channel, sock, wire, inbox, items, due, ticks,
                   json, decoded, order, pureVars>>

\* ws.send(Message::Text(msg)).await? and the Ok(Self {..}) that follows:
\* the second half of each of the four connects.
SendSubscription ==
    /\ conn = "opened"
    /\ \E written \in BOOLEAN :
         IF written
         THEN /\ sent' = Append(sent, "SUB")
              /\ conn' = "client"
              /\ pingInterval' =
                    IF mode = "run" THEN UnwrapOr(builder, DefaultPingSecs) ELSE 0
              /\ pc' = IF mode = "run" THEN "runIdle" ELSE "pull"
              /\ sock' = sock
         ELSE /\ conn' = "failed"
              /\ sock' = "ended"
              /\ UNCHANGED <<sent, pingInterval, pc>>
    /\ UNCHANGED <<builder, mode, channel, wire, inbox, items, due, ticks,
                   json, decoded, order, pureVars>>

\* ---------------------------------------------------------------- peer
\* The peer sends one of the frames Fs.
ArriveFrom(Fs) ==
    /\ PeerOpen
    /\ Len(wire) < MaxWire
    /\ Len(inbox) < MaxFrames
    /\ \E f \in Fs :
         /\ wire' = Append(wire, f)
         /\ inbox' = Append(inbox, f)
    /\ UNCHANGED <<builder, conn, mode, channel, pingInterval, sock, sent, items,
                   pc, due, ticks, json, decoded, order, pureVars>>

\* The peer sends a frame.
Arrive == ArriveFrom(PeerFrames(Len(inbox) + 1))

\* The peer sends a frame, one for each arm of the match in run.
ArriveOutcome == ArriveFrom(OutcomeFrames(Len(inbox) + 1))

\* The peer sends PONG, as it does in reply to a PING.
ArrivePong ==
    /\ PeerOpen
    /\ conn = "client"
    /\ Len(wire) < MaxWire
    /\ wire' = Append(wire, PongFrame)
    /\ UNCHANGED <<builder, conn, mode, channel, pingInterval, sock, inbox, sent,
                   items, pc, due, ticks, json, decoded, order, pureVars>>


\* ------------------------------------------- WebSocket (the pull stream)
\* What one frame read from inner leads to, in poll_next and in run alike:
\* "skip" (continue), "item" (a decoded message), "decodeErr", "transportErr",
\* "close" (Message::Close) and "eof" (None).
Outcome(ch, f) ==
    CASE f.kind \in {"Text", "Binary"} ->
            LET r == ParseMessage(ch, f.text) IN
            IF r = Skip THEN "skip" ELSE IF r.ok THEN "item" ELSE "decodeErr"
      [] f.kind \in {"BinaryBad", "Ping", "Pong"} -> "skip"
      [] f.kind = "Close" -> "close"
      [] f.kind = "Error" -> "transportErr"
      [] OTHER -> "eof"

\* The item a frame leads to, when it leads to one.
ItemOf(ch, f) ==
    IF f.kind = "Error" THEN Item(f, TransportErr)
    ELSE Item(f, ParseMessage(ch, f.text))

\* poll_next writing a PING whenever it skips a frame.
PollNextKeepsAlive ==
    /\ conn = "client" /\ mode = "pull"
    /\ sock # "ended"
    /\ wire # <<>>
    /\ wire' = Tail(wire)
    /\ LET f == Head(wire)
           out == Outcome(channel, f) IN
       /\ items' = IF out \in {"item", "decodeErr", "transportErr"}
                   THEN Append(items, ItemOf(channel, f)) ELSE items
       /\ pc' = IF out \in {"close", "eof"} THEN "pullNone" ELSE "pull"
       /\ sock' = IF out \in {"close", "eof", "transportErr"}
                  THEN "ended" ELSE sock
       /\ sent' = IF out = "skip" THEN Append(sent, "PING") ELSE sent
    /\ UNCHANGED <<builder, conn, mode, channel, pingInterval, inbox, due,
                   ticks, json, decoded, order, pureVars>>

\* One turn of the loop of poll_next: inner.poll_next is Ready. A turn that
\* skips its frame leaves nothing behind but the shorter queue, so the
\* turns of one call and of the next are the same steps. Poll::Pending (the
\* queue is empty) changes nothing.
PollNext ==
    /\ conn = "client" /\ mode = "pull"
    /\ IF sock = "ended"
       THEN \* inner has ended: Poll::Ready(None)
            /\ pc # "pullNone"
            /\ pc' = "pullNone"
            /\ UNCHANGED <<wire, items, sock>>
       ELSE /\ wire # <<>>
            /\ wire' = Tail(wire)
            /\ LET f == Head(wire)
                   out == Outcome(channel, f) IN
               /\ items' = IF out \in {"item", "decodeErr", "transportErr"}
                           THEN Append(items, ItemOf(channel, f)) ELSE items
               /\ pc' = IF out \in {"close", "eof"} THEN "pullNone" ELSE "pull"
               \* a transport error, the answer to a close and the end of
               \* the socket end inner; a decode error does not
               /\ sock' = IF out \in {"close", "eof", "transportErr"}
                          THEN "ended" ELSE sock
    /\ UNCHANGED <<builder, conn, mode, channel, pingInterval, inbox, sent, due,
                   ticks, json, decoded, order, pureVars>>

\* WebSocket::ping. On a socket that is closed the send fails and nothing
\* is written.
Ping ==
    /\ conn = "client" /\ mode = "pull"
    /\ sock = "active"
    /\ Pings < MaxTicks
    /\ sent' = Append(sent, "PING")
    /\ UNCHANGED <<builder, conn, mode, channel, pingInterval, sock, wire, inbox,
                   items, pc, due, ticks, json, decoded, order, pureVars>>

\* WebSocket::close: inner.close(None) writes the close frame; inner goes on
\* reading until the peer answers. A second close writes nothing.
Close ==
    /\ conn = "client" /\ mode = "pull"
    /\ sock = "active"
    /\ sock' = "closedByUs"
    /\ sent' = Append(sent, "CLOSE")
    /\ UNCHANGED <<builder, conn, mode, channel, pingInterval, wire, inbox,
                   items, pc, due, ticks, json, decoded, order, pureVars>>

\* ------------------------------------------- WebSocketWithPing::run
Running == mode = "run" /\ pc \in {"select", "pinging", "handler"}
RunDone == mode = "run" /\ pc \in {"runOk", "runErr"}

\* run is called: interval(self.ping_interval), whose first tick completes
\* at once.
RunStart ==
    /\ conn = "client" /\ mode = "run" /\ pc = "runIdle"
    /\ pc' = "select"
    /\ due' = 1
    /\ ticks' = 1
    /\ UNCHANGED <<builder, conn, mode, channel, pingInterval, sock, wire, inbox,
                   sent, items, json, decoded, order, pureVars>>

\* The interval elapses and the PING is written at once, as by a keep-alive
\* task of its own.
TickSendsPing ==
    /\ Running
    /\ ticks < MaxTicks
    /\ ticks' = ticks + 1
    /\ sent' = Append(sent, "PING")
    /\ UNCHANGED <<builder, conn, mode, channel, pingInterval, sock, wire, inbox,
                   items, pc, due, json, decoded, order, pureVars>>

\* The interval elapses once more. A tick that is not served at once stays
\* due (the interval catches up).
Tick ==
    /\ Running
    /\ ticks < MaxTicks
    /\ ticks' = ticks + 1
    /\ due' = due + 1
    /\ UNCHANGED <<builder, conn, mode, channel, pingInterval, sock, wire, inbox,
                   sent, items, pc, json, decoded, order, pureVars>>

\* select! with the branches polled in the order written (biased): the
\* tick is taken only when no inbound frame is ready.
RunSelectTickBiased ==
    /\ mode = "run" /\ pc = "select"
    /\ due > 0
    /\ wire = <<>>
    /\ due' = due - 1
    /\ pc' = "pinging"
    /\ UNCHANGED <<builder, conn, mode, channel, pingInterval, sock, wire, inbox,
                   sent, items, ticks, json, decoded, order, pureVars>>

\* select! takes the tick while the read of the next frame has already
\* taken a frame from the socket: the frame is dropped with the read.
RunSelectTickDrops ==
    /\ mode = "run" /\ pc = "select"
    /\ due > 0
    /\ due' = due - 1
    /\ pc' = "pinging"
    /\ wire' = IF wire = <<>> THEN wire ELSE Tail(wire)
    /\ UNCHANGED <<builder, conn, mode, channel, pingInterval, sock, inbox,
                   sent, items, ticks, json, decoded, order, pureVars>>

\* select! takes the branch `_ = ping_interval.tick()`.
RunSelectTick ==
    /\ mode = "run" /\ pc = "select"
    /\ due > 0
    /\ due' = due - 1
    /\ pc' = "pinging"
    /\ UNCHANGED <<builder, conn, mode, channel, pingInterval, sock, wire, inbox,
                   sent, items, ticks, json, decoded, order, pureVars>>

\* The PING written while the next frame is read, as by a writer that
\* runs beside the reader.
RunPingSendBesideRead ==
    /\ mode = "run" /\ pc = "pinging"
    /\ sent' = Append(sent, "PING")
    /\ pc' = "select"
    /\ wire' = IF wire = <<>> THEN wire ELSE Tail(wire)
    /\ UNCHANGED <<builder, conn, mode, channel, pingInterval, sock, inbox,
                   items, due, ticks, json, decoded, order, pureVars>>

\* self.inner.send(Message::Text("PING")).await? : the frame is written, or
\* the send fails and run returns the error.
RunPingSend ==
    /\ mode = "run" /\ pc = "pinging"
    /\ \E written \in BOOLEAN :
         IF written
         THEN /\ sent' = Append(sent, "PING")
              /\ pc' = "select"
              /\ sock' = sock
         ELSE /\ pc' = "runErr"
              /\ sock' = "ended"
              /\ sent' = sent
    /\ UNCHANGED <<builder, conn, mode, channel, pingInterval, wire, inbox,
                   items, due, ticks, json, decoded, order, pureVars>>

\* The match on msg with a decode error logged and skipped.
RunSelectMsgSkipsErrors ==
    /\ mode = "run" /\ pc = "select"
    /\ wire # <<>>
    /\ wire' = Tail(wire)
    /\ LET f == Head(wire)
           out == Outcome(channel, f) IN
       /\ items' = IF out \in {"item", "decodeErr", "transportErr"}
                   THEN Append(items, ItemOf(channel, f)) ELSE items
       /\ pc' = CASE out \in {"skip", "decodeErr"} -> "select"
                  [] out = "item" -> "handler"
                  [] out \in {"close", "eof"} -> "runOk"
                  [] OTHER -> "runErr"
       /\ sock' = IF out \in {"skip", "item", "decodeErr"} THEN sock ELSE "ended"
    /\ UNCHANGED <<builder, conn, mode, channel, pingInterval, inbox, sent, due,
                   ticks, json, decoded, order, pureVars>>

\* select! takes the branch `msg = self.inner.next()`: the match on msg, up
\* to the call of the handler. The test text == "PONG" before parse_message
\* skips what parse_message skips too.
RunSelectMsg ==
    /\ mode = "run" /\ pc = "select"
    /\ wire # <<>>
    /\ wire' = Tail(wire)
    /\ LET f == Head(wire)
           out == Outcome(channel, f) IN
       /\ items' = IF out \in {"item", "decodeErr", "transportErr"}
                   THEN Append(items, ItemOf(channel, f)) ELSE items
       /\ pc' = CASE out = "skip" -> "select"
                  [] out = "item" -> "handler"
                  [] out \in {"close", "eof"} -> "runOk"
                  [] OTHER -> "runErr"
       \* run owns the client: when it returns the socket is dropped
       /\ sock' = IF out \in {"skip", "item"} THEN sock ELSE "ended"
    /\ UNCHANGED <<builder, conn, mode, channel, pingInterval, inbox, sent, due,
                   ticks, json, decoded, order, pureVars>>

\* handler(channel).await? : the handler returns Ok, or an error that run
\* returns.
HandlerReturn ==
    /\ mode = "run" /\ pc = "handler"
    /\ \E ok \in BOOLEAN :
         IF ok
         THEN pc' = "select" /\ sock' = sock
         ELSE pc' = "runErr" /\ sock' = "ended"
    /\ UNCHANGED <<builder, conn, mode, channel, pingInterval, wire, inbox, sent,
                   items, due, ticks, json, decoded, order, pureVars>>

\* ------------------------------------------------------ specifications
Next ==
    \/ \E d \in {5, 30} : BuilderPingInterval(d)
    \/ ConnectMarket
    \/ ConnectUser
    \/ BuilderConnectMarket
    \/ BuilderConnectUser
    \/ SendSubscription
    \/ Arrive
    \/ ArrivePong
    \/ PollNext
    \/ Ping
    \/ Close
    \/ RunStart
    \/ Tick
    \/ RunSelectTick
    \/ RunPingSend
    \/ RunSelectMsg
    \/ HandlerReturn

Spec == Init /\ [][Next]_vars


\* --------------------------------------------------- decoders on inputs
\* The JSON objects and arrays the decoders are applied to.
JsonObjs ==
    { Obj(e, sh, m, p) : e \in EventTypes \cup {"none"}, sh \in Shapes,
                         m \in BOOLEAN, p \in 1..2 }
ArrElems ==
    { Obj(e, sh, FALSE, p) : e \in {"book", "trade", "none"},
                             sh \in {"book", "other"}, p \in 1..2 }
SeqsUpTo(S, n) == UNION { [1..k -> S] : k \in 0..n }

JsonTexts ==
    { ObjText(o) : o \in JsonObjs }
    \cup { ArrText(os) : os \in SeqsUpTo(ArrElems, MaxArr) }
    \cup { Lit("PONG"), Lit("{}"), Lit(""), Junk("junk"), Junk("junk event_type") }

\* "[" + json + "]"
Wrap(t) == ArrText(t.elems)

InitDecode ==
    /\ Init!1 /\ Init!2 /\ Init!3 /\ Init!4 /\ Init!5 /\ Init!6 /\ Init!7
    /\ Init!8 /\ Init!9 /\ Init!10 /\ Init!11 /\ Init!12 /\ Init!13
    /\ json \in JsonTexts
    /\ decoded = <<>>
    /\ order = NoOrder
    /\ Init!17 /\ Init!18 /\ Init!19 /\ Init!20 /\ Init!21 /\ Init!22

\* from_json and parse_message of channel ch applied to json and, when json
\* is an object, from_json applied to the array that holds it alone.
Decode(ch) ==
    /\ decoded = <<>>
    /\ LET from(t) == IF ch = "market" THEN MarketFromJson(t) ELSE UserFromJson(t) IN
       decoded' = [ch |-> ch,
                   plain |-> from(json),
                   wrapped |-> IF json.form = "obj" THEN from(Wrap(json))
                               ELSE from(json),
                   parsed |-> ParseMessage(ch, json)]
    /\ UNCHANGED <<builder, conn, mode, channel, pingInterval, sock, wire, inbox,
                   sent, items, pc, due, ticks, json, order, pureVars>>

\* MarketMessage::from_json on the input
DecodeMarket == Decode("market")

\* UserMessage::from_json on the input
DecodeUser == Decode("user")

NextDecode == DecodeMarket \/ DecodeUser

SpecDecode == InitDecode /\ [][NextDecode]_vars

\* ------------------------------ f64 values and CreateOrderParams::validate
\* An f64: NaN, -inf, +inf, or the number nearest to a decimal literal. The
\* literal is held in millionths; F takes it in hundredths.
F(v) == [cls |-> "num", v |-> v * 10000]
NaN == [cls |-> "nan", v |-> 0]
PosInf == [cls |-> "inf", v |-> 0]
NegInf == [cls |-> "ninf", v |-> 0]

\* a <= b and a > b on f64: false when either side is NaN
FLe(a, b) ==
    /\ a.cls # "nan" /\ b.cls # "nan"
    /\ \/ a.cls = "ninf"
       \/ b.cls = "inf"
       \/ a.cls = "num" /\ b.cls = "num" /\ a.v <= b.v
FGt(a, b) == a.cls # "nan" /\ b.cls # "nan" /\ ~FLe(a, b)
IsNan(a) == a.cls = "nan"

Prices == {NaN, NegInf, F(-1), F(0), F(1), F(52), F(100), F(101), PosInf}
Sizes == {NaN, NegInf, F(-100), F(0), F(1), F(10000), PosInf}

\* CreateOrderParams::validate without the test for NaN.
ValidateNoNan(p) ==
    IF FLe(p.price, F(0)) \/ FGt(p.price, F(100)) THEN "Validation"
    ELSE IF FLe(p.size, F(0)) THEN "Validation"
    ELSE "Ok"

\* CreateOrderParams::validate
Validate(p) ==
    IF FLe(p.price, F(0)) \/ FGt(p.price, F(100)) THEN "Validation"
    ELSE IF FLe(p.size, F(0)) THEN "Validation"
    ELSE IF IsNan(p.price) \/ IsNan(p.size) THEN "Validation"
    ELSE "Ok"

\* ------------------------------------------------- keep-alive under fairness
\* The keep-alive of run is served under the scheduling of select!, which
\* takes a branch that is ready and picks the first branch it polls at
\* random at every turn (strong fairness of the tick branch, weak fairness
\* of the message branch), with sends and handlers that complete.
NextRun ==
    \/ \E d \in {5, 30} : BuilderPingInterval(d)
    \/ BuilderConnectMarket
    \/ BuilderConnectUser
    \/ SendSubscription
    \/ ArriveOutcome
    \/ ArrivePong
    \/ RunStart
    \/ Tick
    \/ RunSelectTick
    \/ RunPingSend
    \/ RunSelectMsg
    \/ HandlerReturn

FairSpec ==
    /\ Init /\ [][NextRun]_vars
    /\ SF_vars(RunSelectTick)
    /\ WF_vars(RunSelectMsg)
    /\ WF_vars(RunPingSend)
    /\ WF_vars(HandlerReturn)

\* ---------------------------------------------------------- f64 arithmetic
\* The arithmetic of utils.rs is IEEE-754 binary64. A finite f64 is held
\* here as sign, mantissa and exponent (value m * 2^e), the mantissa as a
\* natural of any size: a little-endian sequence of limbs below Limb with no
\* high zero limb. Every operation rounds to MantBits bits, ties to even.
LimbBits == 15
Limb == 2^LimbBits
MantBits == 53
\* Bits kept below the quotient of a division before it is rounded.
GuardBits == 80

RECURSIVE BNorm(_)
BNorm(a) ==
    IF a # <<>> /\ a[Len(a)] = 0 THEN BNorm(SubSeq(a, 1, Len(a) - 1)) ELSE a

RECURSIVE BFromInt(_)
BFromInt(n) == IF n = 0 THEN <<>> ELSE <<n % Limb>> \o BFromInt(n \div Limb)

RECURSIVE BToInt(_)
BToInt(a) == IF a = <<>> THEN 0 ELSE a[1] + Limb * BToInt(Tail(a))

\* a * k + c, for k and c below Limb
RECURSIVE BMulSmall(_, _, _)
BMulSmall(a, k, c) ==
    IF a = <<>> THEN BFromInt(c)
    ELSE LET t == a[1] * k + c IN
         <<t % Limb>> \o BMulSmall(Tail(a), k, t \div Limb)

\* a + b + c, for c below Limb
RECURSIVE BAddC(_, _, _)
BAddC(a, b, c) ==
    IF a = <<>> /\ b = <<>> THEN BFromInt(c)
    ELSE LET x == IF a = <<>> THEN 0 ELSE a[1]
             y == IF b = <<>> THEN 0 ELSE b[1]
             t == x + y + c
         IN <<t % Limb>> \o BAddC(IF a = <<>> THEN <<>> ELSE Tail(a),
                                  IF b = <<>> THEN <<>> ELSE Tail(b),
                                  t \div Limb)
BAdd(a, b) == BAddC(a, b, 0)

RECURSIVE BMul(_, _)
BMul(a, b) ==
    IF a = <<>> \/ b = <<>> THEN <<>>
    ELSE LET hi == BMul(a, Tail(b)) IN
         BAdd(BNorm(BMulSmall(a, b[1], 0)),
              IF hi = <<>> THEN <<>> ELSE <<0>> \o hi)

\* quotient and remainder of a by k, for k below Limb
RECURSIVE BDivMod(_, _)
BDivMod(a, k) ==
    IF a = <<>> THEN [q |-> <<>>, r |-> 0]
    ELSE LET hi == BDivMod(Tail(a), k)
             t == hi.r * Limb + a[1]
         IN [q |-> <<t \div k>> \o hi.q, r |-> t % k]

\* quotient of a by 10^d, and whether a remainder was dropped
RECURSIVE BDivPow10(_, _)
BDivPow10(a, d) ==
    IF d = 0 THEN [q |-> a, inexact |-> FALSE]
    ELSE LET r == BDivPow10(a, d - 1)
             dm == BDivMod(r.q, 10)
         IN [q |-> BNorm(dm.q), inexact |-> r.inexact \/ dm.r # 0]

RECURSIVE Bits(_)
Bits(n) == IF n = 0 THEN 0 ELSE 1 + Bits(n \div 2)
BitLen(a) == IF a = <<>> THEN 0 ELSE LimbBits * (Len(a) - 1) + Bits(a[Len(a)])

\* a * 2^s and the integer part of a / 2^s
BShl(a, s) ==
    IF a = <<>> THEN <<>>
    ELSE [i \in 1..(s \div LimbBits) |-> 0]
         \o BNorm(BMulSmall(a, 2^(s % LimbBits), 0))
BShr(a, s) ==
    LET w == s \div LimbBits IN
    IF w >= Len(a) THEN <<>>
    ELSE BNorm(BDivMod(SubSeq(a, w + 1, Len(a)), 2^(s % LimbBits)).q)

\* bit i of a (bit 0 is the lowest), and whether the s lowest bits are zero
BBit(a, i) ==
    LET w == i \div LimbBits IN
    IF w >= Len(a) THEN 0 ELSE (a[w + 1] \div 2^(i % LimbBits)) % 2
BLowZero(a, s) == \A i \in 0..(s - 1) : BBit(a, i) = 0

\* The f64 nearest to (n + r) * 2^e, where 0 <= r < 1 and r # 0 iff inexact:
\* round to nearest, ties to even.
RoundToF64(n, e, inexact) ==
    LET s == BitLen(n) - MantBits IN
    IF s <= 0 THEN [m |-> n, e |-> e]
    ELSE LET q == BShr(n, s)
             half == BBit(n, s - 1) = 1
             rest == inexact \/ ~BLowZero(n, s - 1)
             up == half /\ (rest \/ BBit(q, 0) = 1)
         IN [m |-> IF up THEN BAdd(q, <<1>>) ELSE q, e |-> e + s]

\* Magnitudes: x * y, x / 10^d, x.round() and x.floor() for x >= 0.
MagMul(x, y) == RoundToF64(BMul(x.m, y.m), x.e + y.e, FALSE)
MagDivPow10(x, d) ==
    IF x.m = <<>> THEN x
    ELSE LET r == BDivPow10(BShl(x.m, GuardBits), d) IN
         RoundToF64(r.q, x.e - GuardBits, r.inexact)
MagFloor(x) == IF x.e >= 0 THEN BShl(x.m, x.e) ELSE BShr(x.m, -x.e)
MagRound(x) ==
    IF x.e >= 0 THEN BShl(x.m, x.e)
    ELSE BAdd(BShr(x.m, -x.e),
              IF BBit(x.m, (-x.e) - 1) = 1 THEN <<1>> ELSE <<>>)

\* An f64 in binary: cls as in F, neg the sign, m and e the magnitude.
Bin(cls, neg, m, e) == [cls |-> cls, neg |-> neg, m |-> m, e |-> e]

\* The f64 a decimal literal denotes: x holds the literal in millionths.
ToBin(x) ==
    IF x.cls = "num"
    THEN LET abs == IF x.v < 0 THEN -x.v ELSE x.v
             mag == MagDivPow10([m |-> BFromInt(abs), e |-> 0], 6)
         IN
         Bin("num", x.v < 0, mag.m, mag.e)
    ELSE Bin(IF x.cls = "nan" THEN "nan" ELSE "inf", x.cls = "ninf", <<>>, 0)

\* a * b
FMul(a, b) ==
    IF a.cls = "nan" \/ b.cls = "nan" THEN Bin("nan", FALSE, <<>>, 0)
    ELSE IF a.cls = "inf" \/ b.cls = "inf"
    THEN IF (a.cls = "num" /\ a.m = <<>>) \/ (b.cls = "num" /\ b.m = <<>>)
         THEN Bin("nan", FALSE, <<>>, 0)
         ELSE Bin("inf", a.neg # b.neg, <<>>, 0)
    ELSE LET mag == MagMul(a, b) IN Bin("num", a.neg # b.neg, mag.m, mag.e)

\* a / 10^d
FDivPow10(a, d) ==
    IF a.cls # "num" THEN a
    ELSE LET mag == MagDivPow10(a, d) IN Bin("num", a.neg, mag.m, mag.e)

\* f64::round: to the nearest integer, halves away from zero
FRound(a) == IF a.cls # "num" THEN a ELSE Bin("num", a.neg, MagRound(a), 0)

\* f64::floor
FFloor(a) ==
    IF a.cls # "num" THEN a
    ELSE IF a.neg /\ a.e < 0 /\ ~BLowZero(a.m, -a.e)
    THEN Bin("num", TRUE, BAdd(MagFloor(a), <<1>>), 0)
    ELSE Bin("num", a.neg, MagFloor(a), 0)

\* 10_f64.powi(decimals)
Powi10(decimals) == Bin("num", FALSE, BFromInt(10^decimals), 0)

\* u128::MAX.to_string()
U128Max == "340282366920938463463374607431768211455"

\* (x as u128).to_string(), for an integral x below 2^31: the cast saturates,
\* NaN gives 0.
AsU128String(a) ==
    IF a.cls = "nan" THEN "0"
    ELSE IF a.neg THEN "0"
    ELSE IF a.cls = "inf" THEN U128Max
    ELSE ToString(BToInt(MagFloor(a)))

\* ------------------------------------------------ calculate_order_amounts
TickSizes == {"Tenth", "Hundredth", "Thousandth", "TenThousandth"}
OrderSides == {"Buy", "Sell"}

\* TickSize::decimals
Decimals(tick_size) ==
    CASE tick_size = "Tenth" -> 1
      [] tick_size = "Hundredth" -> 2
      [] tick_size = "Thousandth" -> 3
      [] tick_size = "TenThousandth" -> 4

\* round_to_decimals
RoundToDecimals(value, decimals) ==
    LET multiplier == Powi10(decimals) IN
    FDivPow10(FRound(FMul(value, multiplier)), decimals)

\* to_raw_amount
ToRawAmount(value, decimals) ==
    LET multiplier == Powi10(decimals) IN
    AsU128String(FFloor(FMul(value, multiplier)))

SIZE_DECIMALS == 2

\* calculate_order_amounts with the arm of Buy for both sides.
CalculateOrderAmountsOneArm(price, size, side, tick_size) ==
    LET tick_decimals == Decimals(tick_size)
        price_rounded == RoundToDecimals(price, tick_decimals)
        size_rounded == RoundToDecimals(size, SIZE_DECIMALS)
        cost == FMul(price_rounded, size_rounded)
        cost_rounded == RoundToDecimals(cost, tick_decimals)
        share_amount == ToRawAmount(size_rounded, SIZE_DECIMALS)
        cost_amount == ToRawAmount(cost_rounded, SIZE_DECIMALS)
    IN <<cost_amount, share_amount>>

\* calculate_order_amounts: (maker_amount, taker_amount)
CalculateOrderAmounts(price, size, side, tick_size) ==
    LET tick_decimals == Decimals(tick_size)
        price_rounded == RoundToDecimals(price, tick_decimals)
        size_rounded == RoundToDecimals(size, SIZE_DECIMALS)
        cost == FMul(price_rounded, size_rounded)
        cost_rounded == RoundToDecimals(cost, tick_decimals)
        share_amount == ToRawAmount(size_rounded, SIZE_DECIMALS)
        cost_amount == ToRawAmount(cost_rounded, SIZE_DECIMALS)
    IN IF side = "Buy" THEN <<cost_amount, share_amount>>
       ELSE <<share_amount, cost_amount>>

\* An f64 literal given in millionths.
Micro(u) == [cls |-> "num", v |-> u]

\* amounts: the inputs and, for each side, the result once it is computed.
AmountsInput(price, size, tick_size) ==
    [pc |-> "input", price |-> price, size |-> size, tick_size |-> tick_size,
     out |-> [side \in OrderSides |-> <<>>]]

\* The prices and sizes the function is applied to.
InitAmounts ==
    /\ InitBase
    /\ LET prices == {NaN, PosInf, Micro(-520000), F(0), Micro(100),
                      Micro(123449), Micro(123450), Micro(145000), F(50),
                      F(52), Micro(525000), F(100)}
           sizes == {NaN, PosInf, NegInf, F(-100), F(0), Micro(4000),
                     Micro(5000), F(29), F(57), Micro(1005000),
                     Micro(10555000), F(10000)}
       IN amounts \in { AmountsInput(p, s, t) :
                          p \in prices, s \in sizes, t \in TickSizes }
    /\ Init!18 /\ Init!19 /\ Init!20 /\ Init!21 /\ Init!22

\* calculate_order_amounts(price, size, side, tick_size)
Calculate(side) ==
    /\ amounts.pc = "input"
    /\ amounts.out[side] = <<>>
    /\ amounts' = [amounts EXCEPT !.out[side] =
                     CalculateOrderAmounts(ToBin(amounts.price),
                                           ToBin(amounts.size), side,
                                           amounts.tick_size)]
    /\ UNCHANGED <<wsVars, decVars, order, signing, request, signer, debug, chains>>

CalculateBuy == Calculate("Buy")
CalculateSell == Calculate("Sell")

NextAmounts == CalculateBuy \/ CalculateSell

SpecAmounts == InitAmounts /\ [][NextAmounts]_vars

\* ------------------------------------ create_order and place_order
\* The Order create_order returns, by the fields that depend on the call.
OrderOf(salt, p, tick_size) ==
    LET amts == CalculateOrderAmounts(ToBin(p.price), ToBin(p.size), p.side,
                                      tick_size)
    IN [salt |-> salt, maker_amount |-> amts[1], taker_amount |-> amts[2],
        side |-> p.side]

\* The SignedOrder Account::sign_order returns: the signature is held as
\* what it is a signature of.
SignedOrderOf(o) == [order |-> o, signature |-> [signs |-> o]]

\* order: the call in progress. op: the entry point; account: whether the
\* client holds one; effects: the requests sent and the calls of the signer
\* so far, in order; built, signed, posted: the Order built or handed in,
\* the SignedOrder made or handed in, the body of the POST (<<>>: none);
\* result: "" until the call returns. The order handed to sign_order and
\* the one in the signed order handed to post_order is the order of a buy
\* of 100.0 at 0.52.
OrderCall(op, p, acct) ==
    LET given == [salt |-> 1, maker_amount |-> "5200",
                  taker_amount |-> "10000", side |-> "Buy"] IN
    [pc |-> "account", op |-> op, params |-> p, account |-> acct,
     effects |-> <<>>, tick_size |-> "",
     built |-> IF op = "sign_order" THEN <<given>> ELSE <<>>,
     signed |-> IF op = "post_order" THEN <<SignedOrderOf(given)>> ELSE <<>>,
     posted |-> <<>>, result |-> ""]

Return(o, res) == [o EXCEPT !.pc = "done", !.result = res]
Effect(o, e) == [o EXCEPT !.effects = Append(@, e)]

\* Clob::create_order / Clob::place_order is called.
Call(op) ==
    /\ order.pc = "idle"
    /\ \E price \in Prices, size \in Sizes, side \in OrderSides,
          acct \in BOOLEAN :
         order' = OrderCall(op, [price |-> price, size |-> size,
                                 side |-> side], acct)
    /\ UNCHANGED <<wsVars, decVars, pureVars>>

CallCreateOrder == Call("create_order")
CallPlaceOrder == Call("place_order")

\* Clob::sign_order(&order), Clob::post_order(&signed_order), Clob::orders()
\* or Clob::account_api() is called.
CallOther(op) ==
    /\ order.pc = "idle"
    /\ \E acct \in BOOLEAN :
         order' = OrderCall(op, [price |-> F(52), size |-> F(10000),
                                 side |-> "Buy"], acct)
    /\ UNCHANGED <<wsVars, decVars, pureVars>>

CallSignOrder == CallOther("sign_order")
CallPostOrder == CallOther("post_order")
CallOrders == CallOther("orders")
CallAccountApi == CallOther("account_api")

\* The account tested by create_order and place_order only.
CreateAccountOfCreateOnly ==
    /\ order.pc = "account"
    /\ order' =
         CASE order.op \in {"create_order", "place_order"} ->
                IF order.account THEN [order EXCEPT !.pc = "validate"]
                ELSE Return(order, "Validation")
           [] order.op = "sign_order" -> [order EXCEPT !.pc = "sign"]
           [] order.op = "post_order" -> [order EXCEPT !.pc = "post"]
           [] OTHER -> Return(order, "Ok")
    /\ UNCHANGED <<wsVars, decVars, pureVars>>

\* The first statement of every entry point:
\* self.account.as_ref().ok_or_else(|| ClobError::validation(..))?
\* orders() and account_api() then return the namespace. (Within
\* place_order the same statement of sign_order and of post_order finds the
\* account create_order found.)
CreateAccount ==
    /\ order.pc = "account"
    /\ order' =
         IF ~order.account THEN Return(order, "Validation")
         ELSE CASE order.op \in {"create_order", "place_order"} ->
                     [order EXCEPT !.pc = "validate"]
                [] order.op = "sign_order" -> [order EXCEPT !.pc = "sign"]
                [] order.op = "post_order" -> [order EXCEPT !.pc = "post"]
                [] OTHER -> Return(order, "Ok")
    /\ UNCHANGED <<wsVars, decVars, pureVars>>

\* create_order: params.validate()?
CreateValidate ==
    /\ order.pc = "validate"
    /\ order' = IF Validate(order.params) = "Ok" THEN [order EXCEPT !.pc = "market"]
                ELSE Return(order, "Validation")
    /\ UNCHANGED <<wsVars, decVars, pureVars>>

\* create_order: self.markets().get(token_id).send().await? and
\* TickSize::try_from(market.minimum_tick_size)?
CreateMarket ==
    /\ order.pc = "market"
    /\ \E out \in TickSizes \cup {"Api", "Validation"} :
         order' = IF out \in TickSizes
                  THEN [Effect(order, "GET market") EXCEPT
                          !.pc = "fee", !.tick_size = out]
                  ELSE Return(Effect(order, "GET market"), out)
    /\ UNCHANGED <<wsVars, decVars, pureVars>>

\* create_order: the GET of /fee-rate
CreateFee ==
    /\ order.pc = "fee"
    /\ \E ok \in BOOLEAN :
         order' = IF ok
                  THEN [Effect(order, "GET fee-rate") EXCEPT !.pc = "build"]
                  ELSE Return(Effect(order, "GET fee-rate"), "Api")
    /\ UNCHANGED <<wsVars, decVars, pureVars>>

\* create_order: calculate_order_amounts and Ok(Order {..}); place_order
\* goes on with the order.
CreateBuild ==
    /\ order.pc = "build"
    /\ \E salt \in {1, 2} :   \* generate_salt()
         LET made == [order EXCEPT
                        !.built = <<OrderOf(salt, order.params,
                                            order.tick_size)>>]
         IN order' = IF order.op = "place_order"
                     THEN [made EXCEPT !.pc = "sign"]
                     ELSE Return(made, "Ok")
    /\ UNCHANGED <<wsVars, decVars, pureVars>>

\* sign_order with place_order posting even when the signing failed.
PlaceSignGoesOn ==
    /\ order.pc = "sign"
    /\ \E ok \in BOOLEAN :
         order' = IF ok
                  THEN [Effect(order, "sign") EXCEPT
                          !.pc = "post",
                          !.signed = <<SignedOrderOf(order.built[1])>>]
                  ELSE [Effect(order, "sign") EXCEPT !.pc = "post"]
    /\ UNCHANGED <<wsVars, decVars, pureVars>>

\* sign_order: account.sign_order(order, self.chain_id).await, and in
\* place_order the ? on its result.
PlaceSign ==
    /\ order.pc = "sign"
    /\ \E ok \in BOOLEAN :
         order' =
           IF ok
           THEN LET made == [Effect(order, "sign") EXCEPT
                               !.signed = <<SignedOrderOf(order.built[1])>>]
                IN IF order.op = "place_order" THEN [made EXCEPT !.pc = "post"]
                   ELSE Return(made, "Ok")
           ELSE Return(Effect(order, "sign"), "Crypto")
    /\ UNCHANGED <<wsVars, decVars, pureVars>>

\* post_order: Request::post(.., "/order", AuthMode::L2 {..}, ..)
\* .body(signed_order)?.send().await. The request is not sent when the body
\* does not serialize or the headers cannot be signed.
PlacePost ==
    /\ order.pc = "post"
    /\ \E res \in {"Ok", "Api", "unsent"} :
         order' =
           IF res = "unsent" THEN Return(order, "Crypto")
           ELSE Return([Effect(order, "POST order") EXCEPT
                          !.posted = order.signed], res)
    /\ UNCHANGED <<wsVars, decVars, pureVars>>

NextOrder ==
    \/ CallCreateOrder
    \/ CallPlaceOrder
    \/ CallSignOrder
    \/ CallPostOrder
    \/ CallOrders
    \/ CallAccountApi
    \/ CreateAccount
    \/ CreateValidate
    \/ CreateMarket
    \/ CreateFee
    \/ CreateBuild
    \/ PlaceSign
    \/ PlacePost

SpecOrder == Init /\ [][NextOrder]_vars

\* ------------------------------------------------------------- sign_order
\* Chain::from_chain_id for every id: the profile of the first chain.
ChainFromChainIdAny(chain_id) ==
    IF chain_id = 80002 THEN <<"PolygonAmoy">> ELSE <<"PolygonMainnet">>

\* Chain::from_chain_id: <<>> is None
ChainFromChainId(chain_id) ==
    CASE chain_id = 137 -> <<"PolygonMainnet">>
      [] chain_id = 80002 -> <<"PolygonAmoy">>
      [] OTHER -> <<>>

\* Contracts::POLYGON_MAINNET and Contracts::POLYGON_AMOY
POLYGON_MAINNET ==
    [exchange |-> "4bFb41d5B3570DeFd03C39a9A4D8dE6Bd8B8982E",
     neg_risk_exchange |-> "C5d563A36AE78145C45a50134d48A1215220f80a",
     neg_risk_adapter |-> "d91E80cF2E7be2e162c6513ceD06f1dD0dA35296",
     collateral |-> "2791Bca1f2de4661ED88A30C99A7a9449Aa84174",
     conditional_tokens |-> "4D97DCd97eC945f40cF65F87097ACe5EA0476045"]
POLYGON_AMOY ==
    [exchange |-> "dFE02Eb6733538f8Ea35D585af8DE5958AD99E40",
     neg_risk_exchange |-> "d91E80cF2E7be2e162c6513ceD06f1dD0dA35296",
     neg_risk_adapter |-> "d0D0E471E88e0A8E7C304F2df3A0Cc7400fe4635",
     collateral |-> "9c4e1703476e875070ee25b56a58b008cfb8fa78",
     conditional_tokens |-> "69308FB512518e39F9b16112fA8d994F4e2Bf8bB"]

\* Chain::contracts
Contracts(chain) ==
    IF chain = "PolygonMainnet" THEN POLYGON_MAINNET ELSE POLYGON_AMOY

\* A string is the sequence of its characters. The digits of radix 10, and
\* the value of one.
IsDecimalDigit(c) == c \in {"0", "1", "2", "3", "4", "5", "6", "7", "8", "9"}
DigitOf(c) ==
    CHOOSE d \in 0..9 :
      <<"0", "1", "2", "3", "4", "5", "6", "7", "8", "9">>[d + 1] = c

\* U256::from_str_radix(s, 10): every `_` is skipped, every other character
\* has to be a digit below the radix; the digits are folded from the left,
\* so the empty string gives zero. <<>> is Err, <<n>> is Ok(n).
RECURSIVE FromBaseBe(_, _)
FromBaseBe(s, acc) ==
    IF s = <<>> THEN <<acc>>
    ELSE IF s[1] = "_" THEN FromBaseBe(Tail(s), acc)
    ELSE IF IsDecimalDigit(s[1])
    THEN FromBaseBe(Tail(s), acc * 10 + DigitOf(s[1]))
    ELSE <<>>
FromStrRadix10(s) == FromBaseBe(s, 0)

\* The numeric fields of Order, in the order in which OrderStruct is built.
NumericFields ==
    <<"salt", "token_id", "maker_amount", "taker_amount", "expiration",
      "nonce", "fee_rate_bps">>

\* side and signatureType of OrderStruct
SideCode(side) == IF side = "Buy" THEN 0 ELSE 1
SignatureTypeCode(t) ==
    CASE t = "Eoa" -> 0 [] t = "PolyProxy" -> 1 [] t = "PolyGnosisSafe" -> 2

\* ClobError::Crypto(format!(..)): the text and the value it names
Crypto(text, names) == [kind |-> "Crypto", text |-> text, names |-> names]

\* signing: the call of sign_order(order, signer, chain_id). domain and
\* fields are what has been built so far; trace lists the lookups, the
\* parses and the calls of the wallet's sign_hash, in order.
SignCall(o, side, chain_id) ==
    [pc |-> "chain", order |-> o, side |-> side, chain_id |-> chain_id,
     domain |-> <<>>, fields |-> <<>>, trace |-> <<>>, result |-> <<>>]

\* The calls: the numeric fields of the order hold "12", but for at most
\* two of them, which hold any of the texts.
InitSign ==
    /\ InitBase
    /\ Init!17
    /\ LET texts == {<<"1", "2">>, <<>>, <<"1", "_", "0">>, <<"1", "a">>,
                     <<"-", "1">>, <<"0", "x", "1">>}
           orders == { [f \in 1..Len(NumericFields) |->
                          IF f = a THEN x ELSE IF f = b THEN y
                          ELSE <<"1", "2">>] :
                         a \in 1..Len(NumericFields),
                         b \in 1..Len(NumericFields),
                         x \in texts, y \in texts }
       IN signing \in { SignCall(o, side, c) :
                          o \in orders, side \in OrderSides,
                          c \in {137, 80002, 1} }
    /\ Init!19 /\ Init!20 /\ Init!21 /\ Init!22

\* Chain::from_chain_id(chain_id).ok_or_else(..)?, chain.contracts() and the
\* EIP712Domain
SignChain ==
    /\ signing.pc = "chain"
    /\ LET chain == ChainFromChainId(signing.chain_id)
           logged == [signing EXCEPT !.trace = Append(@, "from_chain_id")]
       IN signing' =
            IF chain = <<>>
            THEN [logged EXCEPT
                    !.pc = "done",
                    !.result = Crypto("Unsupported chain ID", signing.chain_id)]
            ELSE [logged EXCEPT
                    !.pc = "parse",
                    !.domain =
                       <<[name |-> "Polymarket CTF Exchange",
                          version |-> "1",
                          chainId |-> signing.chain_id,
                          verifyingContract |->
                             Contracts(chain[1]).neg_risk_exchange]>>]
    /\ UNCHANGED <<wsVars, decVars, order, amounts, request, signer, debug, chains>>

\* The next numeric field of OrderStruct:
\* U256::from_str_radix(&order.<field>, 10).map_err(..)?
SignParse ==
    /\ signing.pc = "parse"
    /\ LET k == Len(signing.fields) + 1
           field == NumericFields[k]
           parsed == FromStrRadix10(signing.order[k])
           logged == [signing EXCEPT !.trace = Append(@, field)]
       IN signing' =
            IF parsed = <<>>
            THEN [logged EXCEPT !.pc = "done",
                                !.result = Crypto("Invalid", field)]
            ELSE [logged EXCEPT
                    !.fields = Append(@, parsed[1]),
                    !.pc = IF k = Len(NumericFields) THEN "hash" ELSE "parse"]
    /\ UNCHANGED <<wsVars, decVars, order, amounts, request, signer, debug, chains>>

\* The digest of the domain and of the struct, signer.sign_hash(&digest)
\* .await? and the hex text of the signature: the signature is held as what
\* it is a signature of.
SignHash ==
    /\ signing.pc = "hash"
    /\ \E ok \in BOOLEAN :
         signing' =
           [signing EXCEPT
              !.pc = "done",
              !.trace = Append(@, "sign_hash"),
              !.result =
                 IF ok
                 THEN [kind |-> "Ok",
                       domain |-> signing.domain[1],
                       fields |-> signing.fields,
                       side |-> SideCode(signing.side),
                       signatureType |-> SignatureTypeCode("Eoa")]
                 ELSE [kind |-> "Alloy"]]
    /\ UNCHANGED <<wsVars, decVars, order, amounts, request, signer, debug, chains>>

NextSign == SignChain \/ SignParse \/ SignHash

SpecSign == InitSign /\ [][NextSign]_vars

\* ------------------------------------------------- Request::send_raw
\* Seconds of the system clock a run goes through, and sends of one client.
MaxClock == 3
MaxSends == 2

\* AuthMode
AuthNone == [mode |-> "None"]
AuthL1(wallet, nonce, timestamp) ==
    [mode |-> "L1", wallet |-> wallet, nonce |-> nonce, timestamp |-> timestamp]
AuthL2(address, credentials, sgn) ==
    [mode |-> "L2", address |-> address, credentials |-> credentials,
     signer |-> sgn]

\* The wallet and the credentials of the client.
TheWallet == [address |-> "0xf39Fd6e51aad88F6F4ce6aB8827279cffFb92266"]
TheCredentials ==
    [key |-> "test_key", secret |-> "c2VjcmV0", passphrase |-> "test_pass"]

\* Request::get / Request::post and Request::body: <<>> is no body. The
\* second of the clock at which the request is built is kept with it.
Request(method, path, body, auth, chain_id, now) ==
    [method |-> method, path |-> path, body |-> body, auth |-> auth,
     chain_id |-> chain_id, built_at |-> now]

\* The timestamp of an L2 request taken when the request was built.
CurrentTimestampAtBuild(r, now) == r.built_at

\* current_timestamp() in add_auth_headers: now is the second of the clock
\* at which it is evaluated
CurrentTimestamp(r, now) == now

\* Signer::create_message
CreateMessage(timestamp, method, path, body) ==
    ToString(timestamp) \o method \o path \o UnwrapOr(body, "")

\* sign_clob_auth: the signature is held as what it is a signature of
SignClobAuth(wallet, chain_id, timestamp, nonce) ==
    [by |-> wallet.address,
     domain |-> [name |-> "ClobAuthDomain", version |-> "1",
                 chainId |-> chain_id,
                 verifyingContract |-> "0000000000000000000000000000000000000000"],
     timestamp |-> timestamp, nonce |-> nonce]

\* signer.sign(&message): the MAC is held as what it is a MAC of
MacOf(sgn, message) == [key |-> sgn.secret, message |-> message]

Header(name, value) == [name |-> name, value |-> value]

\* add_auth_headers that leaves POLY_NONCE out in L1 mode.
AddAuthHeadersNoNonce(r, now, signed) ==
    CASE r.auth.mode = "None" -> [ok |-> TRUE, headers |-> <<>>, message |-> ""]
      [] r.auth.mode = "L1" ->
           IF ~signed THEN [ok |-> FALSE, headers |-> <<>>, message |-> ""]
           ELSE [ok |-> TRUE, message |-> "",
                 headers |->
                   <<Header("POLY_ADDRESS", r.auth.wallet.address),
                     Header("POLY_SIGNATURE",
                            SignClobAuth(r.auth.wallet, r.chain_id,
                                         r.auth.timestamp, r.auth.nonce)),
                     Header("POLY_TIMESTAMP", ToString(r.auth.timestamp))>>]
      [] r.auth.mode = "L2" ->
           LET timestamp == CurrentTimestamp(r, now)
               message == CreateMessage(timestamp, r.method, r.path, r.body)
           IN [ok |-> TRUE, message |-> message,
               headers |->
                 <<Header("POLY_ADDRESS", r.auth.address),
                   Header("POLY_SIGNATURE", MacOf(r.auth.signer, message)),
                   Header("POLY_TIMESTAMP", ToString(timestamp)),
                   Header("POLY_API_KEY", r.auth.credentials.key),
                   Header("POLY_PASSPHRASE", r.auth.credentials.passphrase)>>]

\* Request::add_auth_headers. signed: whether the wallet signs the
\* auth-challenge (L1). message: the text handed to signer.sign (L2).
AddAuthHeaders(r, now, signed) ==
    CASE r.auth.mode = "None" -> [ok |-> TRUE, headers |-> <<>>, message |-> ""]
      [] r.auth.mode = "L1" ->
           IF ~signed THEN [ok |-> FALSE, headers |-> <<>>, message |-> ""]
           ELSE [ok |-> TRUE, message |-> "",
                 headers |->
                   <<Header("POLY_ADDRESS", r.auth.wallet.address),
                     Header("POLY_SIGNATURE",
                            SignClobAuth(r.auth.wallet, r.chain_id,
                                         r.auth.timestamp, r.auth.nonce)),
                     Header("POLY_TIMESTAMP", ToString(r.auth.timestamp)),
                     Header("POLY_NONCE", ToString(r.auth.nonce))>>]
      [] r.auth.mode = "L2" ->
           LET timestamp == CurrentTimestamp(r, now)
               message == CreateMessage(timestamp, r.method, r.path, r.body)
           IN [ok |-> TRUE, message |-> message,
               headers |->
                 <<Header("POLY_ADDRESS", r.auth.address),
                   Header("POLY_SIGNATURE", MacOf(r.auth.signer, message)),
                   Header("POLY_TIMESTAMP", ToString(timestamp)),
                   Header("POLY_API_KEY", r.auth.credentials.key),
                   Header("POLY_PASSPHRASE", r.auth.credentials.passphrase)>>]

\* request: clock is the second the system clock shows; cur is the request
\* built and not yet sent (<<>>: none); sends lists the calls of send_raw,
\* each with the second at which it ran, the message signed, and the
\* headers of the request put on the network (sent) or the failure.
InitRequest ==
    /\ InitBase
    /\ Init!17 /\ Init!18
    /\ request \in { [pc |-> "client", chain_id |-> c, clock |-> 1,
                      cur |-> <<>>, sends |-> <<>>] : c \in {137, 80002} }
    /\ Init!20 /\ Init!21 /\ Init!22

\* A second of the system clock passes.
ClockTick ==
    /\ request.pc = "client"
    /\ request.clock < MaxClock
    /\ request' = [request EXCEPT !.clock = @ + 1]
    /\ UNCHANGED <<wsVars, decVars, order, amounts, signing, signer, debug, chains>>

\* Request::get / Request::post (and Request::body) with the auth mode of
\* the call.
RequestBuild ==
    /\ request.pc = "client"
    /\ request.cur = <<>>
    /\ Len(request.sends) < MaxSends
    /\ LET endpoints ==
             {[method |-> "GET", path |-> "/orders", body |-> <<>>],
              [method |-> "POST", path |-> "/order",
               body |-> <<"{\"id\":1}">>]}
           modes ==
             {AuthNone, AuthL1(TheWallet, 7, 5),
              AuthL2(TheWallet.address, TheCredentials, [secret |-> "secret"])}
       IN \E e \in endpoints, auth \in modes :
            request' = [request EXCEPT !.cur =
                          <<Request(e.method, e.path, e.body, auth,
                                    request.chain_id, request.clock)>>]
    /\ UNCHANGED <<wsVars, decVars, order, amounts, signing, signer, debug, chains>>

\* Request::send_raw: self.add_auth_headers(request).await? and
\* request.send().await
SendRaw ==
    /\ request.pc = "client"
    /\ request.cur # <<>>
    /\ \E signed \in BOOLEAN :
         LET r == request.cur[1]
             auth == AddAuthHeaders(r, request.clock, signed)
         IN request' =
              [request EXCEPT
                 !.cur = <<>>,
                 !.sends = Append(@, [request |-> r,
                                      at |-> request.clock,
                                      sent |-> auth.ok,
                                      message |-> auth.message,
                                      headers |-> auth.headers,
                                      result |-> IF auth.ok THEN "Ok"
                                                 ELSE "Alloy"])]
    /\ UNCHANGED <<wsVars, decVars, order, amounts, signing, signer, debug, chains>>

NextRequest == ClockTick \/ RequestBuild \/ SendRaw

SpecRequest == InitRequest /\ [][NextRequest]_vars

\* ------------------------------------------------ Signer::new and sign
\* Longest secret handed to Signer::new.
MaxSecretLen == 4
\* Bytes of a digest in the model (an HMAC-SHA256 digest has 32: ten groups
\* of three bytes and a last group of two; here one group and a group of two).
DigestLen == 5

\* The alphabets of the base64 engines: the character of every sextet.
StandardAlphabet ==
    <<"A", "B", "C", "D", "E", "F", "G", "H", "I", "J", "K", "L", "M",
      "N", "O", "P", "Q", "R", "S", "T", "U", "V", "W", "X", "Y", "Z",
      "a", "b", "c", "d", "e", "f", "g", "h", "i", "j", "k", "l", "m",
      "n", "o", "p", "q", "r", "s", "t", "u", "v", "w", "x", "y", "z",
      "0", "1", "2", "3", "4", "5", "6", "7", "8", "9", "+", "/">>
UrlSafeAlphabet == SubSeq(StandardAlphabet, 1, 62) \o <<"-", "_">>

\* The engines: alphabet and padding (written by encode, required by decode).
STANDARD == [alphabet |-> StandardAlphabet, pad |-> TRUE]
URL_SAFE == [alphabet |-> UrlSafeAlphabet, pad |-> TRUE]
BASE64_URL_SAFE_NO_PAD == [alphabet |-> UrlSafeAlphabet, pad |-> FALSE]

\* The bytes of a sequence of sextets (decode) and the sextets of a sequence
\* of bytes (encode).
RECURSIVE BytesOf(_)
BytesOf(sx) ==
    CASE Len(sx) < 2 -> <<>>
      [] Len(sx) = 2 -> <<sx[1] * 4 + sx[2] \div 16>>
      [] Len(sx) = 3 -> <<sx[1] * 4 + sx[2] \div 16,
                          (sx[2] % 16) * 16 + sx[3] \div 4>>
      [] OTHER -> <<sx[1] * 4 + sx[2] \div 16,
                    (sx[2] % 16) * 16 + sx[3] \div 4,
                    (sx[3] % 4) * 64 + sx[4]>>
                  \o BytesOf(SubSeq(sx, 5, Len(sx)))
RECURSIVE SextetsOf(_)
SextetsOf(bytes) ==
    CASE Len(bytes) = 0 -> <<>>
      [] Len(bytes) = 1 -> <<bytes[1] \div 4, (bytes[1] % 4) * 16>>
      [] Len(bytes) = 2 -> <<bytes[1] \div 4,
                             (bytes[1] % 4) * 16 + bytes[2] \div 16,
                             (bytes[2] % 16) * 4>>
      [] OTHER -> <<bytes[1] \div 4,
                    (bytes[1] % 4) * 16 + bytes[2] \div 16,
                    (bytes[2] % 16) * 4 + bytes[3] \div 64,
                    bytes[3] % 64>>
                  \o SextetsOf(SubSeq(bytes, 4, Len(bytes)))

\* Number of `=` at the end of s
RECURSIVE Padding(_)
Padding(s) ==
    IF s # <<>> /\ s[Len(s)] = "=" THEN 1 + Padding(SubSeq(s, 1, Len(s) - 1))
    ELSE 0

\* Engine::decode: <<>> is Err, <<bytes>> is Ok(bytes). Every symbol before
\* the padding has to be of the alphabet; the symbols cannot leave one over
\* a multiple of four; the padding has to be absent (no-pad engine) or to
\* fill the last group exactly; the bits of the last symbol that belong to
\* no byte have to be zero.
Decode64(engine, s) ==
    LET pad == Padding(s)
        data == SubSeq(s, 1, Len(s) - pad)
        left == Len(data) % 4
        InAlphabet(c) == \E i \in 1..64 : engine.alphabet[i] = c
        SextetOf(c) == (CHOOSE i \in 1..64 : engine.alphabet[i] = c) - 1
        sx == [i \in 1..Len(data) |-> SextetOf(data[i])]
    IN IF \E i \in 1..Len(data) : ~InAlphabet(data[i])
       THEN <<>>
       ELSE IF left = 1 THEN <<>>
       ELSE IF pad # (IF engine.pad THEN (4 - left) % 4 ELSE 0) THEN <<>>
       ELSE IF left = 2 /\ sx[Len(sx)] % 16 # 0 THEN <<>>
       ELSE IF left = 3 /\ sx[Len(sx)] % 4 # 0 THEN <<>>
       ELSE <<BytesOf(sx)>>

\* Engine::encode
Encode64(engine, bytes) ==
    LET sx == SextetsOf(bytes)
        pad == IF engine.pad THEN (3 - (Len(bytes) % 3)) % 3 ELSE 0
    IN [i \in 1..Len(sx) |-> engine.alphabet[sx[i] + 1]]
       \o [i \in 1..pad |-> "="]

\* Result::or_else and Result::unwrap_or_else on decodings
OrElse(res, other) == IF res # <<>> THEN res ELSE other
UnwrapOrElse(res, other) == IF res # <<>> THEN res[1] ELSE other

\* str::as_bytes, for the characters of the secrets.
AsBytes(s) ==
    LET ByteOf(c) ==
          CASE c = "A" -> 65 [] c = "B" -> 66 [] c = "-" -> 45
            [] c = "+" -> 43 [] c = "=" -> 61
    IN [i \in 1..Len(s) |-> ByteOf(s[i])]

\* Signer::new without the decoding of padded URL-safe base64.
SignerNewTwoEngines(secret) ==
    [secret |->
       UnwrapOrElse(OrElse(Decode64(BASE64_URL_SAFE_NO_PAD, secret),
                           Decode64(STANDARD, secret)),
                    AsBytes(secret))]

\* Signer::new: Ok(Self { secret: decoded })
SignerNew(secret) ==
    [secret |->
       UnwrapOrElse(OrElse(OrElse(Decode64(BASE64_URL_SAFE_NO_PAD, secret),
                                  Decode64(URL_SAFE, secret)),
                           Decode64(STANDARD, secret)),
                    AsBytes(secret))]

\* str::replace(from, to) on single characters
Replace(s, from, to) == [i \in 1..Len(s) |-> IF s[i] = from THEN to ELSE s[i]]

\* Signer::sign without the conversion to the URL-safe alphabet.
SignStandard(digest) == Encode64(STANDARD, digest)

\* Signer::sign, from the digest mac.finalize() gives for the key and the
\* message.
Sign(digest) == Replace(Replace(Encode64(STANDARD, digest), "+", "-"), "/", "_")

\* signer: secret is the string handed to Signer::new, made the signer
\* made of it, signature the result of the last sign.
InitSigner ==
    /\ InitBase
    /\ Init!17 /\ Init!18 /\ Init!19
    /\ signer \in { [pc |-> "secret", secret |-> s] :
                      s \in UNION { [1..n -> {"A", "B", "-", "+", "="}] :
                                      n \in 0..MaxSecretLen } }
    /\ Init!21 /\ Init!22

\* Signer::new(secret), as in Account::new
NewSigner ==
    /\ signer.pc = "secret"
    /\ signer' = [pc |-> "signer", secret |-> signer.secret,
                  made |-> SignerNew(signer.secret), result |-> "Ok"]
    /\ UNCHANGED <<wsVars, decVars, order, amounts, signing, request, debug, chains>>

\* The outcomes of signing one of the messages. HMAC-SHA256 is not
\* computed: every digest over the bytes 251 and 255 stands for the digest
\* of some key and message.
Signed(op) ==
    LET messages ==
          {[timestamp |-> 1234567890, method |-> "GET", path |-> "/api/test",
            body |-> <<>>],
           [timestamp |-> 1234567890, method |-> "POST", path |-> "/order",
            body |-> <<"{\"id\":1}">>]}
    IN { [pc |-> "signed", secret |-> signer.secret, made |-> signer.made,
          result |-> "Ok", op |-> op,
          message |-> CreateMessage(m.timestamp, m.method, m.path, m.body),
          digest |-> digest, signature |-> Sign(digest)] :
           m \in messages, digest \in [1..DigestLen -> {251, 255}] }

\* Signer::sign(message)
SignerSign ==
    /\ signer.pc = "signer"
    /\ signer' \in Signed("sign")
    /\ UNCHANGED <<wsVars, decVars, order, amounts, signing, request, debug, chains>>

\* Account::sign_l2_request(timestamp, method, path, body)
SignL2Request ==
    /\ signer.pc = "signer"
    /\ signer' \in Signed("sign_l2_request")
    /\ UNCHANGED <<wsVars, decVars, order, amounts, signing, request, debug, chains>>

NextSigner == NewSigner \/ SignerSign \/ SignL2Request

SpecSigner == InitSigner /\ [][NextSigner]_vars

\* --------------------------------------------------------- Debug output
\* <Credentials as fmt::Debug>::fmt
DebugCredentials(c) ==
    "Credentials { key: \"<redacted>\", secret: \"<redacted>\", "
    \o "passphrase: \"<redacted>\" }"

\* <ApiCredentials as fmt::Debug>::fmt
DebugApiCredentials(c) ==
    "ApiCredentials { api_key: \"<redacted>\", secret: \"<redacted>\", "
    \o "passphrase: \"<redacted>\" }"

\* Debug of Vec<u8>
RECURSIVE DebugList(_)
DebugList(bytes) ==
    IF bytes = <<>> THEN ""
    ELSE IF Len(bytes) = 1 THEN ToString(bytes[1])
    ELSE ToString(bytes[1]) \o ", " \o DebugList(Tail(bytes))
DebugVec(bytes) == "[" \o DebugList(bytes) \o "]"

\* #[derive(Debug)] of Signer
DebugSigner(sgn) == "Signer { secret: " \o DebugVec(sgn.secret) \o " }"

\* #[derive(Debug)] of AuthMode, for AuthMode::L2
DebugAuthMode(auth) ==
    "L2 { address: " \o auth.address
    \o ", credentials: " \o DebugCredentials(auth.credentials)
    \o ", signer: " \o DebugSigner(auth.signer) \o " }"

\* The values made of a secret: Credentials, ws ApiCredentials::new, and
\* the AuthMode::L2 of an account (Account::new makes the signer).
CredentialsOf(secret) ==
    [key |-> "test_key", secret |-> secret, passphrase |-> "test_pass"]
ApiCredentialsOf(secret) ==
    [api_key |-> "test_key", secret |-> secret, passphrase |-> "test_pass"]
AuthModeOf(secret) ==
    AuthL2(TheWallet.address, CredentialsOf(secret), SignerNew(secret))

\* debug: two secrets and, for each kind of value, the renderings with {:?}
\* of the two values that differ in the secret only (<<>>: not rendered).
InitDebug ==
    /\ InitBase
    /\ Init!17 /\ Init!18 /\ Init!19 /\ Init!20 /\ Init!22
    /\ LET secrets == {<<"A", "A", "A", "A">>, <<"A", "A", "A", "B">>,
                       <<"-", "A", "=", "=">>, <<"+", "A">>, <<"A">>, <<>>}
       IN debug \in { [pc |-> "values", secrets |-> <<a, b>>,
                       credentials |-> <<>>, api_credentials |-> <<>>,
                       auth_mode |-> <<>>] : a \in secrets, b \in secrets }

\* format!("{:?}", credentials)
RenderCredentials ==
    /\ debug.pc = "values"
    /\ debug.credentials = <<>>
    /\ debug' = [debug EXCEPT !.credentials =
                   [i \in 1..2 |-> DebugCredentials(CredentialsOf(debug.secrets[i]))]]
    /\ UNCHANGED <<wsVars, decVars, order, amounts, signing, request, signer, chains>>

\* format!("{:?}", api_credentials)
RenderApiCredentials ==
    /\ debug.pc = "values"
    /\ debug.api_credentials = <<>>
    /\ debug' = [debug EXCEPT !.api_credentials =
                   [i \in 1..2 |->
                      DebugApiCredentials(ApiCredentialsOf(debug.secrets[i]))]]
    /\ UNCHANGED <<wsVars, decVars, order, amounts, signing, request, signer, chains>>

\* format!("{:?}", auth) for an AuthMode::L2
RenderAuthMode ==
    /\ debug.pc = "values"
    /\ debug.auth_mode = <<>>
    /\ debug' = [debug EXCEPT !.auth_mode =
                   [i \in 1..2 |-> DebugAuthMode(AuthModeOf(debug.secrets[i]))]]
    /\ UNCHANGED <<wsVars, decVars, order, amounts, signing, request, signer, chains>>

NextDebug == RenderCredentials \/ RenderApiCredentials \/ RenderAuthMode

SpecDebug == InitDebug /\ [][NextDebug]_vars

\* ------------------------------------------------------- Chain lookups
\* Calls of the lookups in one run.
MaxCalls == 4

Chains == {"PolygonMainnet", "PolygonAmoy"}

\* Chain::chain_id with the id of the first chain for every chain.
ChainIdOfMainnet(c) == 137

\* Chain::chain_id
ChainId(c) == IF c = "PolygonMainnet" THEN 137 ELSE 80002

\* chains.log: the calls made so far, each with its argument and its result.
InitChains ==
    /\ InitBase
    /\ Init!17 /\ Init!18 /\ Init!19 /\ Init!20 /\ Init!21
    /\ chains = [pc |-> "calls", log |-> <<>>]

Called(op, arg, res) ==
    /\ chains.pc = "calls"
    /\ Len(chains.log) < MaxCalls
    /\ chains' = [chains EXCEPT
                    !.log = Append(@, [op |-> op, arg |-> arg, res |-> res])]
    /\ UNCHANGED <<wsVars, decVars, order, amounts, signing, request, signer,
                   debug>>

\* Chain::from_chain_id(chain_id)
CallFromChainId ==
    \E id \in {0, 1, 137, 138, 999, 80002, 80003} :
      Called("from_chain_id", id, ChainFromChainId(id))

\* chain.chain_id()
CallChainId == \E c \in Chains : Called("chain_id", c, ChainId(c))

\* chain.contracts()
CallContracts == \E c \in Chains : Called("contracts", c, Contracts(c))

NextChains == CallFromChainId \/ CallChainId \/ CallContracts

SpecChains == InitChains /\ [][NextChains]_vars

\* ================================================================ claims
\* Frame k of inbox has been read from the socket.
WasRead(k) == \A j \in 1..Len(wire) : wire[j].id # k
ItemsOf(k) == {i \in 1..Len(items) : items[i].id = k}
IsNoiseFrame(f) == f.kind \in {"Text", "Binary"} /\ IsKeepAliveNoise(f.text)
Consumes == conn = "client" /\ wire # <<>> /\ wire' = Tail(wire)

\* C1: in poll_next and in run, reading a frame whose text is PONG, {} or
\* the empty text hands no item to the consumer (no message, no error) and
\* does not end the sequence: the consumer stays where it reads the next
\* frame, and the socket stays as it is.
C1_NoiseYieldsNothing ==
    [][(Consumes /\ IsNoiseFrame(Head(wire)))
        => (items' = items /\ sock' = sock /\ pc' = pc /\ pc \in {"pull", "select"})]_vars

\* C1 witness: a {} frame was read without an item, and the frame after it
\* was delivered.
C1_Witness ==
    /\ Len(inbox) = 2 /\ inbox[1].text = Lit("{}") /\ inbox[1].kind = "Text"
    /\ WasRead(1) /\ ItemsOf(1) = {}
    /\ ItemsOf(2) # {}

\* The event types a channel recognises.
Recognised(ch) ==
    IF ch = "market"
    THEN {"book", "price_change", "tick_size_change", "last_trade_price"}
    ELSE {"trade", "order"}

\* The text carries an event_type the channel does not recognise.
CarriesUnknown(ch, t) ==
    \E i \in 1..Len(t.elems) : t.elems[i].evt \notin Recognised(ch) \cup {"none"}

\* C2: every frame read that carries an event_type its channel does not
\* recognise has been handed to the consumer as a decode error.
C2_UnknownEventTypeIsError ==
    \A k \in 1..Len(inbox) :
        (/\ conn = "client"
         /\ WasRead(k)
         /\ inbox[k].kind \in {"Text", "Binary"}
         /\ CarriesUnknown(channel, inbox[k].text))
        => \E i \in ItemsOf(k) : ~items[i].ok

\* C3: in the pull stream an error item is the last item: every item but
\* the last is a message.
C3_ErrorIsLast ==
    mode = "pull" => \A i \in 1..(Len(items) - 1) : items[i].ok

\* C4: in the pull stream no message is yielded once close() was called.
C4_NoMessageAfterClose ==
    mode = "pull" => \A i \in 1..Len(items) : items[i].closed => ~items[i].ok

Count(x) == Cardinality({i \in 1..Len(sent) : sent[i] = x})

\* C5: a client exists only with the subscription as the first frame
\* written, written exactly once; until a client exists nothing else is
\* written and nothing is handed to a consumer; a failed connect leaves no
\* client behind.
C5_SubscriptionFirstAndOnce ==
    /\ conn = "client" => (sent # <<>> /\ sent[1] = "SUB" /\ Count("SUB") = 1)
    /\ conn # "client" => (sent = <<>> /\ items = <<>> /\ pc = "none")

\* C5 witness: a client that has written PINGs after its subscription and
\* has delivered an item.
C5_Witness ==
    conn = "client" /\ Len(sent) = 3 /\ sent[3] = "PING" /\ items # <<>>

\* C6: items are delivered in the order of arrival of their frames, at most
\* one per frame, never for a frame that is still unread, and no frame that
\* was read and decodes to a message or an error goes without its item.
C6_ForwardOnly ==
    /\ \A i, j \in 1..Len(items) : i < j => items[i].id < items[j].id
    /\ \A i \in 1..Len(items) : items[i].id \in 1..Len(inbox) /\ WasRead(items[i].id)
    /\ \A k \in 1..Len(inbox) :
          (conn = "client" /\ WasRead(k)
             /\ Outcome(channel, inbox[k]) \in {"item", "decodeErr", "transportErr"})
          => \E i \in ItemsOf(k) :
                /\ items[i].ok = (Outcome(channel, inbox[k]) = "item")
                /\ items[i].variant = ItemOf(channel, inbox[k]).variant

\* C6 witness: run has delivered two messages in order and has sent a PING
\* between the arrival of the first and the delivery of the second.
C6_Witness ==
    /\ mode = "run" /\ Len(items) = 2 /\ items[1].ok /\ items[2].ok
    /\ Pings >= 2

\* C7: the interval of a client of the builder is the configured one, or
\* 10 seconds; and while run is running every tick of it is followed by a
\* PING: the k-th tick leads to the k-th PING, unless run returns.
C7_EveryTickPinged ==
    /\ [](conn = "client" /\ mode = "run"
            => pingInterval = UnwrapOr(builder, DefaultPingSecs))
    /\ \A k \in 1..(MaxTicks + 1) :
          (mode = "run" /\ ticks >= k) ~> (Pings >= k \/ RunDone)

\* C7 witness: run is running, has received frames, and every tick so far
\* has had its PING.
C7_Witness ==
    /\ Running /\ ticks >= 2 /\ Pings = ticks /\ Len(inbox) >= 1 /\ wire = <<>>
    /\ builder # <<>>

\* C8: run returns Ok exactly on a Close frame or the end of the socket and
\* Err on the first transport error, decode error, failed PING send or
\* handler error; once it has returned, nothing is read, nothing is written
\* and the handler is not invoked.
C8_RunReturns ==
    [][/\ RunDone => (pc' = pc /\ items' = items /\ sent' = sent /\ wire' = wire)
       /\ (mode = "run" /\ Consumes /\ pc = "select")
            => LET out == Outcome(channel, Head(wire)) IN
               /\ out \in {"close", "eof"} <=> pc' = "runOk"
               /\ out \in {"decodeErr", "transportErr"} <=> pc' = "runErr"
       /\ (mode = "run" /\ pc' = "runOk" /\ pc # "runOk") => (pc = "select" /\ Consumes)
       /\ (mode = "run" /\ pc' = "runErr" /\ pc # "runErr")
            => \/ pc = "select" /\ Consumes
               \/ pc = "pinging" /\ sent' = sent
               \/ pc = "handler"]_vars

\* C8 witness: run has returned an error with a frame left unread.
C8_Witness ==
    /\ mode = "run" /\ pc = "runErr" /\ wire # <<>>
    /\ items # <<>> /\ ~items[Len(items)].ok

\* C9: on the market channel the array that holds one book object decodes
\* to the same Book message as the object alone.
C9_ArrayOfOneBook ==
    (/\ decoded # <<>>
     /\ decoded.ch = "market"
     /\ json.form = "obj"
     /\ json.elems[1].evt = "book" /\ json.elems[1].shape = "book")
    => (decoded.wrapped = decoded.plain /\ decoded.plain.ok
        /\ decoded.plain.variant = "Book" /\ decoded.plain.pay = json.elems[1].pay)

\* C9 witness: a book object and its wrapping were decoded to a Book.
C9_Witness ==
    /\ decoded # <<>> /\ decoded.ch = "market" /\ json.form = "obj"
    /\ json.elems[1].evt = "book"
    /\ decoded.plain.ok /\ decoded.wrapped.ok /\ decoded.wrapped.variant = "Book"

\* The parameters the validation has to reject.
Invalid(p) ==
    \/ p.price.cls \in {"nan", "ninf", "inf"}
    \/ p.price.cls = "num" /\ (FLe(p.price, F(0)) \/ FGt(p.price, F(100)))
    \/ p.size.cls \in {"nan", "ninf"}
    \/ p.size.cls = "num" /\ FLe(p.size, F(0))

\* C10: with a price <= 0 or > 1, a size <= 0 or a NaN price or size,
\* create_order and place_order send no request and never call the signer,
\* and they return a Validation error.
C10_InvalidRejectedFirst ==
    (order.pc # "idle" /\ Invalid(order.params))
    => /\ order.effects = <<>>
       /\ order.pc \in {"account", "validate", "done"}
       /\ order.pc = "done" => order.result = "Validation"

\* C10 witness: place_order on a client with an account has returned the
\* Validation error for a NaN size at a valid price.
C10_Witness ==
    /\ order.pc = "done" /\ order.op = "place_order" /\ order.account
    /\ order.params.size = NaN /\ order.params.price = F(52)
    /\ order.result = "Validation"

\* C11: calculate_order_amounts assigns the two legs by side. For every
\* price, size and tick size the result for Sell is the result for Buy with
\* its two components swapped, and for (0.52, 100.0, Hundredth) the result is
\* ("5200", "10000") for Buy and ("10000", "5200") for Sell.
Swapped(pair) == <<pair[2], pair[1]>>
C11_SellIsBuySwapped ==
    amounts.pc = "input" =>
      LET buy == amounts.out["Buy"]
          sell == amounts.out["Sell"]
          example == /\ amounts.price = F(52) /\ amounts.size = F(10000)
                     /\ amounts.tick_size = "Hundredth"
      IN /\ (buy # <<>> /\ sell # <<>>) => sell = Swapped(buy)
         /\ (example /\ buy # <<>>) => buy = <<"5200", "10000">>
         /\ (example /\ sell # <<>>) => sell = <<"10000", "5200">>
C11_Witness ==
    /\ amounts.pc = "input"
    /\ amounts.price = F(52) /\ amounts.size = F(10000)
    /\ amounts.tick_size = "Hundredth"
    /\ amounts.out["Buy"] = <<"5200", "10000">>
    /\ amounts.out["Sell"] = <<"10000", "5200">>

\* C12: when an order is signed, the verifying contract of the signing
\* domain is the exchange address of the contracts of the chain that
\* Chain::from_chain_id returns for the chain id, and the chain id of the
\* domain is that chain id.
C12_DomainUsesExchange ==
    (signing.pc # "none" /\ signing.domain # <<>>) =>
      LET chain == ChainFromChainId(signing.chain_id) IN
      /\ chain # <<>>
      /\ signing.domain[1].verifyingContract = Contracts(chain[1]).exchange
      /\ signing.domain[1].chainId = signing.chain_id

\* C13: sign_order on an order in which one of salt, token_id, maker_amount,
\* taker_amount, expiration, nonce, fee_rate_bps is not a valid base-10
\* integer (a non-empty string of decimal digits) fails with a Crypto error
\* that names the first such field in that order, and the wallet's sign_hash
\* is not called. Stated for the chain ids the registry knows.
IsBase10Integer(s) == s # <<>> /\ \A i \in 1..Len(s) : IsDecimalDigit(s[i])
Malformed(o) == {k \in 1..Len(NumericFields) : ~IsBase10Integer(o[k])}
FirstMalformed(o) == CHOOSE k \in Malformed(o) : \A j \in Malformed(o) : k <= j
SignHashCalls ==
    Cardinality({i \in 1..Len(signing.trace) : signing.trace[i] = "sign_hash"})
C13_MalformedFieldIsCryptoError ==
    (/\ signing.pc = "done"
     /\ ChainFromChainId(signing.chain_id) # <<>>
     /\ Malformed(signing.order) # {}) =>
      /\ signing.result =
           Crypto("Invalid", NumericFields[FirstMalformed(signing.order)])
      /\ SignHashCalls = 0

\* C14: sign_order with a chain id other than 137 and 80002 fails with a
\* Crypto error that names the id; the lookup is made once, no order field
\* has been parsed and the wallet's sign_hash has not been called.
C14_UnknownChainFailsFirst ==
    (signing.pc = "done" /\ signing.chain_id \notin {137, 80002}) =>
      /\ signing.result = Crypto("Unsupported chain ID", signing.chain_id)
      /\ signing.trace = <<"from_chain_id">>
      /\ signing.fields = <<>>
C14_Witness ==
    /\ signing.pc = "done"
    /\ signing.chain_id = 1
    /\ Malformed(signing.order) # {}
    /\ signing.result = Crypto("Unsupported chain ID", 1)

\* C15: for every request sent in L2 mode the timestamp is the second the
\* clock shows during that send, whenever the request was built; the message
\* handed to the HMAC is timestamp, METHOD, path and body (the empty string
\* when there is no body) with nothing between them; and the value of the
\* timestamp header is the timestamp of the signed message.
HeaderValues(s, name) ==
    {s.headers[i].value : i \in {j \in 1..Len(s.headers) : s.headers[j].name = name}}
L2Sends ==
    {i \in 1..Len(request.sends) : request.sends[i].request.auth.mode = "L2"}
C15_TimestampFreshAndSigned ==
    request.pc = "client" =>
      \A i \in L2Sends :
        LET s == request.sends[i]
            r == s.request
            body == IF r.body = <<>> THEN "" ELSE r.body[1]
        IN /\ s.sent
           /\ s.message = ToString(s.at) \o r.method \o r.path \o body
           /\ HeaderValues(s, "POLY_TIMESTAMP") = {ToString(s.at)}
           /\ HeaderValues(s, "POLY_SIGNATURE") =
                {MacOf(r.auth.signer, s.message)}
C15_Witness ==
    /\ request.pc = "client"
    /\ \E i \in L2Sends, j \in L2Sends :
         /\ i < j
         /\ request.sends[i].request.built_at < request.sends[i].at
         /\ request.sends[i].at < request.sends[j].at
         /\ request.sends[i].request.body = <<>>
         /\ request.sends[j].request.body # <<>>
         /\ HeaderValues(request.sends[i], "POLY_TIMESTAMP")
              # HeaderValues(request.sends[j], "POLY_TIMESTAMP")

\* C16: the authentication headers of a request depend on its AuthMode
\* alone. None adds no header; L1 adds exactly address, signature, timestamp
\* and nonce, timestamp and nonce being the values the caller gave and the
\* signature the auth-challenge signature over them and the chain id of the
\* request; L2 adds exactly address, signature, timestamp, api key and
\* passphrase. A request whose signing fails is not sent.
HeaderNames(s) == [i \in 1..Len(s.headers) |-> s.headers[i].name]
C16_HeadersByAuthMode ==
    request.pc = "client" =>
      \A i \in 1..Len(request.sends) :
        LET s == request.sends[i]
            r == s.request
        IN /\ s.result # "Ok" => ~s.sent /\ s.headers = <<>>
           /\ (s.sent /\ r.auth.mode = "None") => s.headers = <<>>
           /\ (s.sent /\ r.auth.mode = "L1") =>
                /\ HeaderNames(s) = <<"POLY_ADDRESS", "POLY_SIGNATURE",
                                      "POLY_TIMESTAMP", "POLY_NONCE">>
                /\ HeaderValues(s, "POLY_ADDRESS") = {r.auth.wallet.address}
                /\ HeaderValues(s, "POLY_TIMESTAMP") = {ToString(r.auth.timestamp)}
                /\ HeaderValues(s, "POLY_NONCE") = {ToString(r.auth.nonce)}
                /\ HeaderValues(s, "POLY_SIGNATURE") =
                     {SignClobAuth(r.auth.wallet, r.chain_id,
                                   r.auth.timestamp, r.auth.nonce)}
           /\ (s.sent /\ r.auth.mode = "L2") =>
                /\ HeaderNames(s) = <<"POLY_ADDRESS", "POLY_SIGNATURE",
                                      "POLY_TIMESTAMP", "POLY_API_KEY",
                                      "POLY_PASSPHRASE">>
                /\ HeaderValues(s, "POLY_ADDRESS") = {r.auth.address}
                /\ HeaderValues(s, "POLY_API_KEY") = {r.auth.credentials.key}
                /\ HeaderValues(s, "POLY_PASSPHRASE") =
                     {r.auth.credentials.passphrase}
C16_Witness ==
    /\ request.pc = "client"
    /\ Len(request.sends) = 2
    /\ request.sends[1].request.auth.mode = "L1"
    /\ request.sends[1].sent
    /\ request.sends[1].at # request.sends[1].request.auth.timestamp
    /\ request.sends[2].request.auth.mode = "L1"
    /\ ~request.sends[2].sent

\* C17: Signer::new never fails. For every secret the key of the signer is
\* the result of the first decoding that succeeds among URL-safe base64
\* without padding, URL-safe base64 with padding and standard base64, in
\* that order, and the bytes of the string itself when the three fail.
C17_FirstDecodingThatSucceeds ==
    signer.pc \in {"signer", "signed"} =>
      LET s == signer.secret
          noPad == Decode64(BASE64_URL_SAFE_NO_PAD, s)
          padded == Decode64(URL_SAFE, s)
          standard == Decode64(STANDARD, s)
      IN /\ signer.result = "Ok"
         /\ signer.made.secret =
              IF noPad # <<>> THEN noPad[1]
              ELSE IF padded # <<>> THEN padded[1]
              ELSE IF standard # <<>> THEN standard[1]
              ELSE AsBytes(s)
C17_Witness ==
    /\ signer.pc = "signer"
    /\ signer.secret = <<"-", "A", "=", "=">>
    /\ Decode64(BASE64_URL_SAFE_NO_PAD, signer.secret) = <<>>
    /\ Decode64(STANDARD, signer.secret) = <<>>
    /\ signer.made.secret = <<248>>

\* C18: for every secret and every message the signature returned by
\* Signer::sign and by Account::sign_l2_request holds neither `+` nor `/`:
\* it is the standard base64 text of the digest, padding included, with
\* `-` in the place of `+` and `_` in the place of `/`, which is the text
\* the padded URL-safe engine gives for the digest.
Has(s, c) == \E i \in 1..Len(s) : s[i] = c
C18_SignatureIsUrlSafe ==
    signer.pc = "signed" =>
      LET standard == Encode64(STANDARD, signer.digest) IN
      /\ ~Has(signer.signature, "+")
      /\ ~Has(signer.signature, "/")
      /\ Len(signer.signature) = Len(standard)
      /\ \A i \in 1..Len(standard) :
           signer.signature[i] = CASE standard[i] = "+" -> "-"
                                   [] standard[i] = "/" -> "_"
                                   [] OTHER -> standard[i]
      /\ signer.signature = Encode64(URL_SAFE, signer.digest)
C18_Witness ==
    /\ signer.pc = "signed"
    /\ signer.op = "sign_l2_request"
    /\ Decode64(STANDARD, signer.secret) = <<>>
    /\ Has(Encode64(STANDARD, signer.digest), "+")
    /\ Has(Encode64(STANDARD, signer.digest), "/")
    /\ Has(signer.signature, "-")
    /\ Has(signer.signature, "_")
    /\ Has(signer.signature, "=")

\* C19: Debug output does not depend on an L2 secret: two Credentials, two
\* ws ApiCredentials and two AuthMode::L2 values (with the signers they
\* hold) that differ only in the secret render to the same text.
SameRendering(pair) == pair = <<>> \/ pair[1] = pair[2]
C19_DebugHidesSecret ==
    debug.pc = "values" =>
      /\ SameRendering(debug.credentials)
      /\ SameRendering(debug.api_credentials)
      /\ SameRendering(debug.auth_mode)

\* C20: CreateOrderParams::validate accepts only a size that is positive
\* and finite: create_order with a size of +infinity returns a Validation
\* error at the validation, as it does with a size that is NaN.
C20_InfiniteSizeRejected ==
    (/\ order.pc \notin {"idle", "account", "validate"}
     /\ order.account
     /\ order.params.size \in {PosInf, NaN}) =>
      /\ order.pc = "done"
      /\ order.result = "Validation"
      /\ order.effects = <<>>

\* C21: the chain lookups are a pure partial function. from_chain_id of the
\* id chain_id() gave for a chain is that chain; from_chain_id of an id
\* other than 137 and 80002 is None; contracts() of a chain is the constant
\* profile of that chain, the same at every call.
ChainCalls(op) == { i \in 1..Len(chains.log) : chains.log[i].op = op }
C21_ChainLookupIsPure ==
    chains.pc = "calls" =>
      /\ \A i \in ChainCalls("chain_id"), j \in ChainCalls("from_chain_id") :
           chains.log[j].arg = chains.log[i].res
             => chains.log[j].res = <<chains.log[i].arg>>
      /\ \A j \in ChainCalls("from_chain_id") :
           chains.log[j].arg \notin {137, 80002} => chains.log[j].res = <<>>
      /\ \A i \in ChainCalls("contracts"), j \in ChainCalls("contracts") :
           chains.log[i].arg = chains.log[j].arg
             => chains.log[i].res = chains.log[j].res
      /\ \A i \in ChainCalls("contracts") :
           chains.log[i].res =
             IF chains.log[i].arg = "PolygonMainnet" THEN POLYGON_MAINNET
             ELSE POLYGON_AMOY

\* The id of Amoy was looked up and handed back to from_chain_id, and
\* contracts() was called twice on one chain.
C21_Witness ==
    /\ chains.pc = "calls"
    /\ \E i \in ChainCalls("chain_id"), j \in ChainCalls("from_chain_id") :
         /\ chains.log[i].arg = "PolygonAmoy"
         /\ i < j
         /\ chains.log[j].arg = chains.log[i].res
    /\ \E i \in ChainCalls("contracts"), j \in ChainCalls("contracts") :
         i # j /\ chains.log[i].arg = chains.log[j].arg

\* C22: on the market channel a text that begins with [ is never skipped by
\* parse_message: its result is the result of the array path of
\* MarketMessage::from_json, a Book message or a decode error; the result
\* for the empty array [] is a decode error.
C22_ArrayNeverNoise ==
    (/\ decoded # <<>>
     /\ decoded.ch = "market"
     /\ StartsWithBracket(json))
    => /\ decoded.parsed # Skip
       /\ decoded.parsed = decoded.plain
       /\ decoded.parsed.ok => decoded.parsed.variant = "Book"
       /\ json.elems = <<>> => ~decoded.parsed.ok

\* C23: a text that does not begin with [ and has no event_type field is
\* skipped by parse_message on either channel (no message and no error),
\* whatever else it contains.
C23_NoEventTypeFieldIsNoise ==
    (/\ decoded # <<>>
     /\ ~StartsWithBracket(json)
     /\ \A i \in 1..Len(json.elems) : json.elems[i].evt = "none")
    => decoded.parsed = Skip

\* C24: place_order runs create (validation, market request, fee request,
\* order built), sign, post in this order, each at most once. The signer is
\* called only with the order that was built, the POST is made only after
\* the signing succeeded and its body is the order that was signed with its
\* signature, and a step that fails ends the call with its error: no later
\* step runs and no earlier step runs again.
PlaceSteps == <<"GET market", "GET fee-rate", "sign", "POST order">>
IsPrefix(s, t) == Len(s) <= Len(t) /\ s = SubSeq(t, 1, Len(s))
C24_PlaceOrderStepsInOrder ==
    (order.pc # "idle" /\ order.op = "place_order") =>
      LET n == Len(order.effects) IN
      /\ IsPrefix(order.effects, PlaceSteps)
      /\ n >= 1 => Validate(order.params) = "Ok" /\ order.account
      /\ order.built # <<>> => n >= 2
      /\ n >= 3 => order.built # <<>>
      /\ order.signed # <<>> =>
           n >= 3 /\ order.signed = <<SignedOrderOf(order.built[1])>>
      /\ n = 4 => order.signed # <<>> /\ order.posted = order.signed
      /\ order.posted # <<>> => n = 4
      /\ order.pc = "done" /\ order.result = "Ok" => n = 4
      /\ n = 4 => order.pc = "done" /\ order.result \in {"Ok", "Api"}
      /\ order.pc = "done" /\ order.result \notin {"Ok", "Api"} => n < 4

\* place_order has returned Ok after the four steps: the order of salt 2
\* was built, signed and posted.
C24_Witness ==
    /\ order.pc = "done" /\ order.op = "place_order" /\ order.result = "Ok"
    /\ order.effects = PlaceSteps
    /\ order.built[1].salt = 2
    /\ order.posted = <<SignedOrderOf(order.built[1])>>

\* C25: in run the writes are serialized. A frame is written only by the
\* PING send that is in progress, one frame per send; a send begins only
\* from the select, so no second send begins while one is in progress; and
\* no step both writes and reads: a frame is read only at the select, and
\* that step neither writes nor begins a send.
C25_WritesSerialized ==
    [][(mode = "run" /\ conn = "client") =>
         /\ sent' # sent =>
              /\ pc = "pinging" /\ pc' # "pinging"
              /\ sent' = Append(sent, "PING")
              /\ ~Consumes /\ items' = items
         /\ (pc' = "pinging" /\ pc # "pinging") =>
              pc = "select" /\ sent' = sent /\ ~Consumes
         /\ Consumes => pc = "select" /\ pc' # "pinging" /\ sent' = sent]_vars

\* A PING send is in progress while an inbound frame waits to be read and
\* an earlier PING has been written.
C25_Witness ==
    /\ mode = "run" /\ pc = "pinging"
    /\ wire # <<>> /\ wire[1].kind = "Text"
    /\ Pings >= 1

\* C28: in run, while a call of the handler is pending no PING is written,
\* no PING send begins and no inbound frame is read; the ticks that elapse
\* meanwhile stay due, and are served only after the handler has returned.
C28_HandlerSuspendsKeepAlive ==
    [][(mode = "run" /\ pc = "handler") =>
         /\ sent' = sent
         /\ pc' \in {"handler", "select", "runErr"}
         /\ ~Consumes /\ items' = items
         /\ due' >= due]_vars

\* A call of the handler is pending while two ticks are due and a frame
\* waits to be read.
C28_Witness ==
    /\ mode = "run" /\ pc = "handler"
    /\ due >= 2
    /\ wire # <<>>

\* C29: on the pull stream a frame is written, after the subscription,
\* only by a call of ping(), which writes one PING, or by a call of
\* close(), which writes the close frame; poll_next writes nothing, so the
\* frames written are the subscription followed by these PINGs and the
\* close frame.
C29_PollingWritesNothing ==
    [][(mode = "pull" /\ conn = "client") =>
         /\ sent' # sent => Ping \/ Close
         /\ Consumes => sent' = sent
         /\ sent[1] = "SUB"
         /\ \A i \in 2..Len(sent) : sent[i] \in {"PING", "CLOSE"}]_vars

\* The consumer has polled two frames, the first skipped and the second a
\* message, and nothing but the subscription was written.
C29_Witness ==
    /\ mode = "pull" /\ conn = "client"
    /\ Len(inbox) = 2 /\ wire = <<>>
    /\ ItemsOf(1) = {} /\ ItemsOf(2) # {}
    /\ sent = <<"SUB">>

\* C30: on a client without an account, create_order, sign_order,
\* post_order, place_order, orders() and account_api() return a Validation
\* error, and no request is sent and the signer is not called before they
\* do.
C30_NoAccountIsValidationError ==
    (order.pc # "idle" /\ ~order.account) =>
      /\ order.pc \in {"account", "done"}
      /\ order.pc = "done" => order.result = "Validation"
      /\ order.effects = <<>>
      /\ order.posted = <<>>
      /\ order.op # "post_order" => order.signed = <<>>

\* post_order has returned on a client without an account.
C30_Witness ==
    /\ order.pc = "done" /\ ~order.account
    /\ order.op = "post_order"
    /\ order.result = "Validation"

\* C26: for a price in (0, 1], a finite size > 0 and any tick size, the raw
\* cost amount of calculate_order_amounts (maker_amount of Buy, taker_amount
\* of Sell) is at most price_rounded * size_rounded * 100, with the price
\* rounded to the decimals of the tick and the size to 2 decimals. P is the
\* rounded price in units of the tick's last decimal, S the rounded size in
\* hundredths: the amount is the text of an integer n with
\* n * 10^decimals <= P * S.
C26_CostNeverRoundedUp ==
    (/\ amounts.pc = "input"
     /\ amounts.price.cls = "num" /\ amounts.size.cls = "num"
     /\ amounts.price.v > 0 /\ amounts.price.v <= 1000000
     /\ amounts.size.v > 0) =>
      LET d == Decimals(amounts.tick_size)
          unit == 10^(6 - d)
          P == (amounts.price.v + unit \div 2) \div unit
          S == (amounts.size.v + 5000) \div 10000
          AtMost(amount) ==
              \E n \in 0..((P * S) \div 10^d) : amount = ToString(n)
          buy == amounts.out["Buy"]
          sell == amounts.out["Sell"]
      IN /\ buy # <<>> => AtMost(buy[1])
         /\ sell # <<>> => AtMost(sell[2])

\* C27: for a size of k hundredths, k a positive integer, the raw share
\* amount of calculate_order_amounts (taker_amount of Buy, maker_amount of
\* Sell) is the decimal text of k.
C27_WholeCentsKept ==
    (/\ amounts.pc = "input"
     /\ amounts.size.cls = "num"
     /\ amounts.size.v > 0 /\ amounts.size.v % 10000 = 0) =>
      LET k == amounts.size.v \div 10000
          buy == amounts.out["Buy"]
          sell == amounts.out["Sell"]
      IN /\ buy # <<>> => buy[2] = ToString(k)
         /\ sell # <<>> => sell[1] = ToString(k)

====
